---- MODULE Spec2Model ----
(***************************************************************************)
(* Nimbus payment orchestrator: the retry/routing engine                   *)
(* (internal/orchestrator), the sliding-window health monitor              *)
(* (internal/health) and the response taxonomy (internal/model).           *)
(*                                                                         *)
(* One ProcessPayment call is followed step by step; every other caller of *)
(* the shared Monitor (other requests, tests seeding the monitor) appears  *)
(* as the environment action ExternalRecord. Time is counted in minutes.   *)
(***************************************************************************)
EXTENDS Integers, Sequences, FiniteSets, TLC

VARIABLES
    now,             \* wall clock (time.Now()), in minutes
    windowSize,      \* Monitor.windowSize
    windowDuration,  \* Monitor.windowDuration, in minutes
    windows,         \* Monitor.windows: processor name -> sequence of outcomes
    processors,      \* Orchestrator.processors: the configured pool, in order
    store,           \* PaymentStore.results: transaction id -> PaymentResult
    pc,              \* position of the ProcessPayment call
    req,             \* the PaymentRequest of the call
    result,          \* local result of ProcessPayment
    i,               \* index of getEligibleProcessors' loop over o.processors
    healthSeen,      \* the snapshots h read by getEligibleProcessors, by name
    eligible,        \* local eligible list
    k,               \* index of the range loop over eligible
    attemptNum,      \* local attemptNum
    reason,          \* local reason of the current attempt
    invoked,         \* names of the processors whose Process was called
    recorded,        \* the RecordOutcome calls made by ProcessPayment
    externalRecords, \* number of RecordOutcome calls made by other callers
    ctxDone,         \* the caller's context of the call is cancelled (ctx.Done())
    saved,           \* the results passed to PaymentStore.Save, in order
    httpRequest,     \* the body of the POST /payments request being handled
    httpStatus,      \* the status code written to its response, 0 before
    httpBody,        \* the body written to its response
    invocation,      \* a MockProcessor.Process call: position, timer, response
    goroutines,      \* the concurrent callers: position, locals, locks held
    monitorMu,       \* Monitor.mu: the writer and the readers holding it
    storeMu          \* PaymentStore.mu: the writer and the readers holding it

vars == <<now, windowSize, windowDuration, windows, processors, store, pc, req,
          result, i, healthSeen, eligible, k, attemptNum, reason, invoked,
          recorded, externalRecords, ctxDone, saved, httpRequest, httpStatus,
          httpBody, invocation, goroutines, monitorMu, storeMu>>

monitorVars == <<windowSize, windowDuration, windows>>
handlerVars == <<httpRequest, httpStatus, httpBody>>
lockVars == <<goroutines, monitorMu, storeMu>>
callVars == <<pc, req, result, i, healthSeen, eligible, k, attemptNum, reason,
              invoked, recorded>>

----------------------------------------------------------------------------
(* Bounds of the model *)

MaxExternalRecords == 4
MaxExternalSaves == 2
MaxMonitorRecords == 6
MaxTime == 15

----------------------------------------------------------------------------
(* internal/config/config.go *)

MaxRetries == 3
HealthWindowSize == 50
HealthWindowDurationMinutes == 10
\* thresholds as exact fractions: 0.5 and 0.2
DegradedThreshold == [num |-> 1, den |-> 2]
CircuitBreakerThreshold == [num |-> 1, den |-> 5]

----------------------------------------------------------------------------
(* internal/model: response codes and payment statuses *)

Approved == "approved"
SoftDecline == "soft_decline"
DeclinedInsufficientFunds == "declined_insufficient_funds"
DeclinedFraud == "declined_fraud"
ProcessorError == "processor_error"
Timeout == "timeout"
RateLimited == "rate_limited"

ResponseCodes ==
    {Approved, SoftDecline, DeclinedInsufficientFunds, DeclinedFraud,
     ProcessorError, Timeout, RateLimited}

\* slip of IsRetriable: a hard decline is listed among the retriable codes
IsRetriableWithFunds(rc) ==
    rc \in {SoftDecline, ProcessorError, Timeout, RateLimited,
            DeclinedInsufficientFunds}

IsRetriable(rc) == rc \in {SoftDecline, ProcessorError, Timeout, RateLimited}

\* slips of IsHardDecline: the fraud case is missing; no case at all
IsHardDeclineFundsOnly(rc) == rc \in {DeclinedInsufficientFunds}
IsHardDeclineNever(rc) == FALSE

IsHardDecline(rc) == rc \in {DeclinedInsufficientFunds, DeclinedFraud}

StatusApproved == "approved"
StatusDeclined == "declined"
StatusExhaustedRetries == "exhausted_retries"

----------------------------------------------------------------------------
(* internal/processor: the pool of cmd/server/main.go *)

PayFlow == [name |-> "PayFlow", methods |-> {"card", "pix", "oxxo", "pse"}]
CardMax == [name |-> "CardMax", methods |-> {"card", "oxxo"}]
PixPay == [name |-> "PixPay", methods |-> {"card", "pix"}]
GlobalPay == [name |-> "GlobalPay", methods |-> {"card", "pix", "oxxo", "pse"}]

MainPool == <<PayFlow, CardMax, PixPay, GlobalPay>>

\* a pool of 13 processors given to orchestrator.New: the four of main.go
\* and nine more card processors
CardProcessor(n) == [name |-> n, methods |-> {"card"}]
WidePool ==
    <<PayFlow, CardMax, PixPay, GlobalPay, CardProcessor("Proc05"),
      CardProcessor("Proc06"), CardProcessor("Proc07"), CardProcessor("Proc08"),
      CardProcessor("Proc09"), CardProcessor("Proc10"), CardProcessor("Proc11"),
      CardProcessor("Proc12"), CardProcessor("Proc13")>>

SupportsMethod(p, method) == method \in p.methods

\* payment methods of the requests the model submits; "crypto" is supported
\* by no processor
RequestMethods == {"card", "pse", "crypto"}
TransactionIDs == {"tx-001"}
\* what the other callers of the Monitor record: approvals and failures of
\* the two processors that support every payment method
ExternalNames == {"PayFlow", "GlobalPay"}
ExternalCodes == {Approved, ProcessorError}

----------------------------------------------------------------------------
(* internal/health/monitor.go *)

StatusHealthy == "healthy"
StatusDegraded == "degraded"
StatusOpen == "circuit_open"

\* a score is the fraction approved/total; float64 division of two counts
\* of at most 50 orders and equates scores exactly as the fractions do
ScoreOne == [num |-> 1, den |-> 1]
ScoreLess(a, b) == a.num * b.den < b.num * a.den

Window(name) == IF name \in DOMAIN windows THEN windows[name] ELSE <<>>

\* slip of the cutoff test: an entry whose timestamp equals the cutoff is
\* kept
AfterOrAt(w, cutoff) == SelectSeq(w, LAMBDA o : o.timestamp >= cutoff)

After(w, cutoff) == SelectSeq(w, LAMBDA o : o.timestamp > cutoff)

LastN(s, n) == IF Len(s) > n THEN SubSeq(s, Len(s) - n + 1, Len(s)) ELSE s

\* slip of getActiveWindow: the window is cut by size only, not by age
getActiveWindowNoCutoff(processorName) ==
    LET window == Window(processorName)
    IN  IF Len(window) = 0 THEN <<>> ELSE LastN(window, windowSize)

getActiveWindow(processorName) ==
    LET window == Window(processorName)
    IN  IF Len(window) = 0
        THEN <<>>
        ELSE LastN(After(window, now - windowDuration), windowSize)

CountApproved(w) == Len(SelectSeq(w, LAMBDA o : o.approved))
CountErrors(w) == Len(SelectSeq(w, LAMBDA o : ~o.approved))

\* slip of the status mapping: the thresholds are compared with <=
StatusOfInclusive(score) ==
    IF ~ScoreLess(CircuitBreakerThreshold, score) THEN StatusOpen
    ELSE IF ~ScoreLess(DegradedThreshold, score) THEN StatusDegraded
    ELSE StatusHealthy

StatusOf(score) ==
    IF ScoreLess(score, CircuitBreakerThreshold) THEN StatusOpen
    ELSE IF ScoreLess(score, DegradedThreshold) THEN StatusDegraded
    ELSE StatusHealthy

\* slip of GetHealth: every outcome of the window is counted as an error
GetHealthCountsAllAsErrors(processorName) ==
    LET window == getActiveWindow(processorName)
        score == [num |-> CountApproved(window), den |-> Len(window)]
    IN  IF Len(window) = 0
        THEN [ProcessorName |-> processorName, HealthScore |-> ScoreOne,
              Status |-> StatusHealthy, TotalRecent |-> 0,
              ApprovedCount |-> 0, ErrorCount |-> 0, LastUpdated |-> now]
        ELSE [ProcessorName |-> processorName, HealthScore |-> score,
              Status |-> StatusOf(score), TotalRecent |-> Len(window),
              ApprovedCount |-> CountApproved(window),
              ErrorCount |-> Len(window), LastUpdated |-> now]

GetHealth(processorName) ==
    LET window == getActiveWindow(processorName)
        score == [num |-> CountApproved(window), den |-> Len(window)]
    IN  IF Len(window) = 0
        THEN [ProcessorName |-> processorName, HealthScore |-> ScoreOne,
              Status |-> StatusHealthy, TotalRecent |-> 0,
              ApprovedCount |-> 0, ErrorCount |-> 0, LastUpdated |-> now]
        ELSE [ProcessorName |-> processorName, HealthScore |-> score,
              Status |-> StatusOf(score), TotalRecent |-> Len(window),
              ApprovedCount |-> CountApproved(window),
              ErrorCount |-> CountErrors(window), LastUpdated |-> now]

\* slip of GetAllHealth: a processor whose entries have all expired is left
\* out
GetAllHealthActiveOnly ==
    {GetHealth(name) : name \in {n \in DOMAIN windows :
                                    Len(getActiveWindow(n)) > 0}}

\* GetAllHealth: one GetHealth per key of m.windows; the order of the slice
\* is that of the map iteration, so the snapshots are taken as a set
GetAllHealth == {GetHealth(name) : name \in DOMAIN windows}

\* slips of pruneWindow: the window is cut by size only, not by age; the
\* oldest windowSize entries are kept
pruneWindowSizeOnly(window) == LastN(window, windowSize)

pruneWindowKeepsOldest(window) ==
    LET pruned == After(window, now - windowDuration)
    IN  IF Len(pruned) > windowSize THEN SubSeq(pruned, 1, windowSize)
        ELSE pruned

pruneWindow(window) == LastN(After(window, now - windowDuration), windowSize)

\* slip of RecordOutcome: a soft decline is not counted as a failure
RecordOutcomeSoftDeclineApproves(processorName, code) ==
    LET appended == Append(Window(processorName),
                           [approved |-> (code \in {Approved, SoftDecline}),
                            timestamp |-> now])
    IN  (processorName :> pruneWindow(appended)) @@ windows

\* the windows map after RecordOutcome(processorName, code)
RecordOutcome(processorName, code) ==
    LET appended == Append(Window(processorName),
                           [approved |-> (code = Approved), timestamp |-> now])
    IN  (processorName :> pruneWindow(appended)) @@ windows

----------------------------------------------------------------------------
(* internal/orchestrator/orchestrator.go *)

NoResult == [TransactionID |-> "", Status |-> "", Attempts |-> <<>>,
             FinalResponse |-> <<>>]
NoRequest == [TransactionID |-> "", PaymentMethod |-> ""]
NoReason == [kind |-> "", score |-> 0, prevProcessor |-> "", prevCode |-> "",
             degraded |-> FALSE]

\* no request body received yet
NoBody == [TransactionID |-> "", Amount |-> 0, Currency |-> "",
           PaymentMethod |-> "", CustomerID |-> "", decodes |-> FALSE]

\* no MockProcessor.Process call made yet: pc is the position of the call,
\* deadline the time at which the channel of time.After(latency) is ready,
\* inTime whether ctx.Done() was closed before that time
NoInvocation == [pc |-> "idle", name |-> "", deadline |-> 0, inTime |-> FALSE,
                 resp |-> <<>>]

\* nothing written to the response yet
NoResponseBody == <<>>

\* a sync.RWMutex nobody holds
NoGoroutine == 0
Unlocked == [writer |-> NoGoroutine, readers |-> {}]

RECURSIVE GCD(_, _)
GCD(a, b) == IF b = 0 THEN a ELSE GCD(b, a % b)

\* numerators n of the fractions n/40 in lowest terms whose float64 lies above
\* n/40, so that "%.2f" rounds them up
RoundedUp40 == {1, 9, 11, 13, 21, 27, 31, 37}

\* "%.2f" of a score, in hundredths: the float64 quotient is rounded to the
\* nearest hundredth.  With at most 50 outcomes a quotient lies half-way
\* between two hundredths only as n/8, which float64 holds exactly and "%.2f"
\* rounds to the even hundredth, or as n/40, which float64 holds inexactly.
Format2dp(score) ==
    LET h == 100 * score.num
        f == h \div score.den
        r == h % score.den
        g == GCD(score.num, score.den)
    IN  IF 2 * r < score.den THEN f
        ELSE IF 2 * r > score.den THEN f + 1
        ELSE IF score.den \div g = 8 THEN (IF f % 2 = 0 THEN f ELSE f + 1)
        ELSE IF (score.num \div g) \in RoundedUp40 THEN f + 1
        ELSE f

\* sort.Slice(eligible, less) with less(a, b) == a.healthScore > b.healthScore
\* slip of the less function: ascending instead of descending
LessAscending(a, b) == ScoreLess(a.healthScore, b.healthScore)

Less(a, b) == ScoreLess(b.healthScore, a.healthScore)

RECURSIVE InsertSorted(_, _)
InsertSorted(sorted, e) ==
    IF sorted = <<>> THEN <<e>>
    ELSE IF Less(e, sorted[Len(sorted)])
         THEN Append(InsertSorted(SubSeq(sorted, 1, Len(sorted) - 1), e),
                     sorted[Len(sorted)])
         ELSE Append(sorted, e)

RECURSIVE insertionSort(_)
insertionSort(s) ==
    IF s = <<>> THEN <<>>
    ELSE InsertSorted(insertionSort(SubSeq(s, 1, Len(s) - 1)), s[Len(s)])

\* sort.Slice is the pattern-defeating quicksort of the Go library (the
\* toolchain of the Dockerfile, Go 1.24): a range of at most maxInsertion
\* elements is sorted by insertion sort, a longer one is partitioned around a
\* pivot.  The library does not promise to keep equal elements in order.
maxInsertion == 12

Swap(s, a, b) == [s EXCEPT ![a] = s[b], ![b] = s[a]]

\* order2: the indices x, y ordered by their elements, and the swap count
order2(s, x, y) == IF Less(s[y], s[x]) THEN <<y, x, 1>> ELSE <<x, y, 0>>

\* choosePivot of a range of 8 to 49 elements: the median of the elements at
\* the three quarter positions, and whether they were found in order
choosePivot(s) ==
    LET q == Len(s) \div 4
        o1 == order2(s, 1 + q, 1 + q * 2)
        o2 == order2(s, o1[2], 1 + q * 3)
        o3 == order2(s, o1[1], o2[1])
    IN  [pivot |-> o3[2], increasing |-> (o1[3] + o2[3] + o3[3] = 0)]

\* partialInsertionSort of a range of fewer than 50 elements: it succeeds,
\* moving nothing, exactly when the range is already in order
partialInsertionSort(s) == \A n \in 2..Len(s) : ~Less(s[n], s[n - 1])

\* the two scans of partition, the pivot being s[1]
RECURSIVE ScanUp(_, _, _)
ScanUp(s, lo, hi) ==
    IF lo <= hi /\ Less(s[lo], s[1]) THEN ScanUp(s, lo + 1, hi) ELSE lo

RECURSIVE ScanDown(_, _, _)
ScanDown(s, lo, hi) ==
    IF lo <= hi /\ ~Less(s[hi], s[1]) THEN ScanDown(s, lo, hi - 1) ELSE hi

RECURSIVE partitionLoop(_, _, _)
partitionLoop(s, lo, hi) ==
    LET lo1 == ScanUp(s, lo, hi)
        hi1 == ScanDown(s, lo1, hi)
    IN  IF lo1 > hi1
        THEN [data |-> Swap(s, hi1, 1), mid |-> hi1]
        ELSE partitionLoop(Swap(s, lo1, hi1), lo1 + 1, hi1 - 1)

\* partition: the pivot goes to the front, the elements less than it are
\* gathered before mid, the others after, and the pivot is put at mid
partition(s, pivot) == partitionLoop(Swap(s, 1, pivot), 2, Len(s))

\* pdqsort_func on a whole slice.  With the pools of the model (at most 13
\* processors) both sides of the first partition have at most maxInsertion
\* elements, so that the later passes of the library's loop (breakPatterns,
\* partitionEqual, heapSort) are not entered.
RECURSIVE pdqsort_func(_)
pdqsort_func(s) ==
    IF Len(s) <= maxInsertion THEN insertionSort(s)
    ELSE LET cp == choosePivot(s)
         IN  IF cp.increasing /\ partialInsertionSort(s) THEN s
             ELSE LET pt == partition(s, cp.pivot)
                  IN  pdqsort_func(SubSeq(pt.data, 1, pt.mid - 1))
                          \o <<pt.data[pt.mid]>>
                          \o pdqsort_func(SubSeq(pt.data, pt.mid + 1, Len(s)))

\* slip of buildRoutingReason: the fallback reason names the first attempt
buildRoutingReasonNamesFirst(ep, n, res) ==
    IF n = 1
    THEN [kind |-> IF ep.status = StatusDegraded THEN "primary (degraded)" ELSE "primary",
          score |-> Format2dp(ep.healthScore), prevProcessor |-> "", prevCode |-> "",
          degraded |-> FALSE]
    ELSE LET prevAttempt == res.Attempts[1]
         IN  [kind |-> "fallback",
              score |-> IF ep.status = StatusDegraded THEN Format2dp(ep.healthScore) ELSE 0,
              prevProcessor |-> prevAttempt.ProcessorName,
              prevCode |-> prevAttempt.Response.Code,
              degraded |-> (ep.status = StatusDegraded)]

buildRoutingReason(ep, n, res) ==
    IF n = 1
    THEN [kind |-> IF ep.status = StatusDegraded THEN "primary (degraded)" ELSE "primary",
          score |-> Format2dp(ep.healthScore), prevProcessor |-> "", prevCode |-> "",
          degraded |-> FALSE]
    ELSE LET prevAttempt == res.Attempts[Len(res.Attempts)]
         IN  [kind |-> "fallback",
              score |-> IF ep.status = StatusDegraded THEN Format2dp(ep.healthScore) ELSE 0,
              prevProcessor |-> prevAttempt.ProcessorName,
              prevCode |-> prevAttempt.Response.Code,
              degraded |-> (ep.status = StatusDegraded)]

\* slip of Save: a result already stored under the id is kept
SaveKeepsFirst(res) ==
    IF res.TransactionID \in DOMAIN store THEN store
    ELSE (res.TransactionID :> res) @@ store

\* slip of Save: the map is replaced by one that holds the result alone
SaveReplacesMap(res) == (res.TransactionID :> res)

\* slip of Save: the attempts of the entry already stored are kept in
\* front of the new ones
SaveMergesAttempts(res) ==
    IF res.TransactionID \in DOMAIN store
    THEN (res.TransactionID :>
              [res EXCEPT !.Attempts =
                              store[res.TransactionID].Attempts \o @]) @@ store
    ELSE (res.TransactionID :> res) @@ store

Save(res) == (res.TransactionID :> res) @@ store

\* PaymentStore.Get on the map results: the result and the found flag
Get(results, txnID) ==
    IF txnID \in DOMAIN results
    THEN [result |-> results[txnID], found |-> TRUE]
    ELSE [result |-> NoResult, found |-> FALSE]

GetPaymentHistory(txnID) == Get(store, txnID)

Init ==
    /\ now = 0
    /\ windowSize = HealthWindowSize
    /\ windowDuration = HealthWindowDurationMinutes
    /\ windows = <<>>
    /\ processors = MainPool
    /\ store = <<>>
    /\ pc = "idle"
    /\ req = NoRequest
    /\ result = NoResult
    /\ i = 0
    /\ healthSeen = <<>>
    /\ eligible = <<>>
    /\ k = 0
    /\ attemptNum = 0
    /\ reason = NoReason
    /\ invoked = <<>>
    /\ recorded = <<>>
    /\ externalRecords = 0
    /\ ctxDone = FALSE
    /\ saved = <<>>
    /\ httpRequest = NoBody
    /\ httpStatus = 0
    /\ httpBody = NoResponseBody
    /\ invocation = NoInvocation
    /\ goroutines = <<>>
    /\ monitorMu = Unlocked
    /\ storeMu = Unlocked

\* ProcessPayment is called: lines 36-40, and getEligibleProcessors is entered
Call(txn, method) ==
    /\ pc = "idle"
    /\ pc' = "eligibility"
    /\ req' = [TransactionID |-> txn, PaymentMethod |-> method]
    /\ result' = [TransactionID |-> txn, Status |-> "", Attempts |-> <<>>,
                  FinalResponse |-> <<>>]
    /\ i' = 1
    /\ eligible' = <<>>
    /\ UNCHANGED <<invocation, handlerVars, lockVars, now, ctxDone, saved, monitorVars, processors, store, healthSeen, k,
                   attemptNum, reason, invoked, recorded, externalRecords>>

\* slip of the loop of getEligibleProcessors: every processor that is not
\* healthy is dropped, the degraded ones too
EligibilityStepSkipsDegraded ==
    /\ pc = "eligibility"
    /\ i <= Len(processors)
    /\ LET p == processors[i]
           h == GetHealth(p.name)
       IN  IF ~SupportsMethod(p, req.PaymentMethod)
           THEN UNCHANGED <<eligible, healthSeen>>
           ELSE /\ healthSeen' = (p.name :> h) @@ healthSeen
                /\ IF h.Status # StatusHealthy
                   THEN UNCHANGED eligible
                   ELSE eligible' = Append(eligible,
                            [proc |-> p.name, healthScore |-> h.HealthScore,
                             status |-> h.Status])
    /\ i' = i + 1
    /\ UNCHANGED <<invocation, handlerVars, lockVars, now, ctxDone, saved, monitorVars, processors, store, pc, req, result, k,
                   attemptNum, reason, invoked, recorded, externalRecords>>

\* one iteration of the loop of getEligibleProcessors, lines 156-176
EligibilityStep ==
    /\ pc = "eligibility"
    /\ i <= Len(processors)
    /\ LET p == processors[i]
           h == GetHealth(p.name)
       IN  IF ~SupportsMethod(p, req.PaymentMethod)
           THEN UNCHANGED <<eligible, healthSeen>>
           ELSE /\ healthSeen' = (p.name :> h) @@ healthSeen
                /\ IF h.Status = StatusOpen
                   THEN UNCHANGED eligible
                   ELSE eligible' = Append(eligible,
                            [proc |-> p.name, healthScore |-> h.HealthScore,
                             status |-> h.Status])
    /\ i' = i + 1
    /\ UNCHANGED <<invocation, handlerVars, lockVars, now, ctxDone, saved, monitorVars, processors, store, pc, req, result, k,
                   attemptNum, reason, invoked, recorded, externalRecords>>

\* slips of the head of the loop: the attempt cap is not tested; the cap is
\* tested one attempt early; the final response is not set when the loop
\* ends; the loop ends with the status declined
LoopHeadNoCap(el, kk, n, res) ==
    IF kk > Len(el)
    THEN /\ result' = [res EXCEPT
                         !.Status = StatusExhaustedRetries,
                         !.FinalResponse =
                             IF Len(res.Attempts) > 0
                             THEN <<res.Attempts[Len(res.Attempts)].Response>>
                             ELSE <<>>]
         /\ pc' = "save"
         /\ attemptNum' = n
         /\ UNCHANGED <<reason, invoked>>
    ELSE /\ attemptNum' = n + 1
         /\ reason' = buildRoutingReason(el[kk], n + 1, res)
         /\ invoked' = Append(invoked, el[kk].proc)
         /\ pc' = "process"
         /\ result' = res

LoopHeadCapEarly(el, kk, n, res) ==
    IF kk > Len(el) \/ n >= MaxRetries - 1
    THEN /\ result' = [res EXCEPT
                         !.Status = StatusExhaustedRetries,
                         !.FinalResponse =
                             IF Len(res.Attempts) > 0
                             THEN <<res.Attempts[Len(res.Attempts)].Response>>
                             ELSE <<>>]
         /\ pc' = "save"
         /\ attemptNum' = n
         /\ UNCHANGED <<reason, invoked>>
    ELSE /\ attemptNum' = n + 1
         /\ reason' = buildRoutingReason(el[kk], n + 1, res)
         /\ invoked' = Append(invoked, el[kk].proc)
         /\ pc' = "process"
         /\ result' = res

LoopHeadNoFinalResponse(el, kk, n, res) ==
    IF kk > Len(el) \/ n >= MaxRetries
    THEN /\ result' = [res EXCEPT !.Status = StatusExhaustedRetries]
         /\ pc' = "save"
         /\ attemptNum' = n
         /\ UNCHANGED <<reason, invoked>>
    ELSE /\ attemptNum' = n + 1
         /\ reason' = buildRoutingReason(el[kk], n + 1, res)
         /\ invoked' = Append(invoked, el[kk].proc)
         /\ pc' = "process"
         /\ result' = res

LoopHeadEndsDeclined(el, kk, n, res) ==
    IF kk > Len(el) \/ n >= MaxRetries
    THEN /\ result' = [res EXCEPT
                         !.Status = StatusDeclined,
                         !.FinalResponse =
                             IF Len(res.Attempts) > 0
                             THEN <<res.Attempts[Len(res.Attempts)].Response>>
                             ELSE <<>>]
         /\ pc' = "save"
         /\ attemptNum' = n
         /\ UNCHANGED <<reason, invoked>>
    ELSE /\ attemptNum' = n + 1
         /\ reason' = buildRoutingReason(el[kk], n + 1, res)
         /\ invoked' = Append(invoked, el[kk].proc)
         /\ pc' = "process"
         /\ result' = res

\* head of the range loop over eligible, lines 55-71, entered with loop index
\* kk, attemptNum n and the result res: leave the loop (lines 119-127), or
\* start the next attempt and call ep.proc.Process
LoopHead(el, kk, n, res) ==
    IF kk > Len(el) \/ n >= MaxRetries
    THEN /\ result' = [res EXCEPT
                         !.Status = StatusExhaustedRetries,
                         !.FinalResponse =
                             IF Len(res.Attempts) > 0
                             THEN <<res.Attempts[Len(res.Attempts)].Response>>
                             ELSE <<>>]
         /\ pc' = "save"
         /\ attemptNum' = n
         /\ UNCHANGED <<reason, invoked>>
    ELSE /\ attemptNum' = n + 1
         /\ reason' = buildRoutingReason(el[kk], n + 1, res)
         /\ invoked' = Append(invoked, el[kk].proc)
         /\ pc' = "process"
         /\ result' = res

\* slips of the empty-list path: the status of the exhausted loop is used;
\* the result is returned without being saved
EligibilityDoneExhausted ==
    /\ pc = "eligibility"
    /\ i > Len(processors)
    /\ LET sorted == pdqsort_func(eligible)
       IN  /\ eligible' = sorted
           /\ IF Len(sorted) = 0
              THEN /\ result' = [result EXCEPT !.Status = StatusExhaustedRetries]
                   /\ pc' = "save"
                   /\ UNCHANGED <<k, attemptNum, reason, invoked>>
              ELSE /\ k' = 1
                   /\ LoopHead(sorted, 1, 0, result)
    /\ UNCHANGED <<invocation, handlerVars, lockVars, now, ctxDone, saved, monitorVars, processors, store, req, i, healthSeen,
                   recorded, externalRecords>>

EligibilityDoneNoSave ==
    /\ pc = "eligibility"
    /\ i > Len(processors)
    /\ LET sorted == pdqsort_func(eligible)
       IN  /\ eligible' = sorted
           /\ IF Len(sorted) = 0
              THEN /\ result' = [result EXCEPT !.Status = StatusDeclined]
                   /\ pc' = "done"
                   /\ UNCHANGED <<k, attemptNum, reason, invoked>>
              ELSE /\ k' = 1
                   /\ LoopHead(sorted, 1, 0, result)
    /\ UNCHANGED <<invocation, handlerVars, lockVars, now, ctxDone, saved, monitorVars, processors, store, req, i, healthSeen,
                   recorded, externalRecords>>

\* the sort of getEligibleProcessors, lines 44-54 of ProcessPayment and the
\* first pass through the head of the loop
EligibilityDone ==
    /\ pc = "eligibility"
    /\ i > Len(processors)
    /\ LET sorted == pdqsort_func(eligible)
       IN  /\ eligible' = sorted
           /\ IF Len(sorted) = 0
              THEN /\ result' = [result EXCEPT !.Status = StatusDeclined]
                   /\ pc' = "save"
                   /\ UNCHANGED <<k, attemptNum, reason, invoked>>
              ELSE /\ k' = 1
                   /\ LoopHead(sorted, 1, 0, result)
    /\ UNCHANGED <<invocation, handlerVars, lockVars, now, ctxDone, saved, monitorVars, processors, store, req, i, healthSeen,
                   recorded, externalRecords>>

\* slip of the attempt: it is numbered from 0
ProcessReturnZeroIndexed(code) ==
    /\ pc = "process"
    /\ LET resp == [ProcessorName |-> eligible[k].proc, Code |-> code]
           attempt == [ProcessorName |-> eligible[k].proc, Response |-> resp,
                       RoutingReason |-> reason, AttemptNumber |-> attemptNum - 1,
                       Timestamp |-> now]
       IN  result' = [result EXCEPT !.Attempts = Append(@, attempt)]
    /\ pc' = "record"
    /\ UNCHANGED <<invocation, handlerVars, lockVars, now, ctxDone, saved, monitorVars, processors, store, req, i,
                   healthSeen, eligible, k, attemptNum, reason, invoked,
                   recorded, externalRecords>>

\* ep.proc.Process returns resp; the attempt is appended, lines 71-80
ProcessReturn(code) ==
    /\ pc = "process"
    /\ LET resp == [ProcessorName |-> eligible[k].proc, Code |-> code]
           attempt == [ProcessorName |-> eligible[k].proc, Response |-> resp,
                       RoutingReason |-> reason, AttemptNumber |-> attemptNum,
                       Timestamp |-> now]
       IN  result' = [result EXCEPT !.Attempts = Append(@, attempt)]
    /\ pc' = "record"
    /\ UNCHANGED <<invocation, handlerVars, lockVars, now, ctxDone, saved, monitorVars, processors, store, req, i, healthSeen,
                   eligible, k, attemptNum, reason, invoked, recorded,
                   externalRecords>>

\* slip of the loop: after a retriable failure the next processor is
\* skipped when the monitor now reads it as circuit_open
RecordAndDecideRefilters ==
    /\ pc = "record"
    /\ LET resp == result.Attempts[Len(result.Attempts)].Response
           nk == IF /\ k + 1 <= Len(eligible)
                    /\ GetHealth(eligible[k + 1].proc).Status = StatusOpen
                 THEN k + 2 ELSE k + 1
       IN  /\ windows' = RecordOutcome(eligible[k].proc, resp.Code)
           /\ recorded' = Append(recorded, [name |-> eligible[k].proc,
                                             code |-> resp.Code])
           /\ IF resp.Code = Approved
              THEN /\ result' = [result EXCEPT !.Status = StatusApproved,
                                               !.FinalResponse = <<resp>>]
                   /\ pc' = "save"
                   /\ UNCHANGED <<k, attemptNum, reason, invoked>>
              ELSE IF IsHardDecline(resp.Code)
              THEN /\ result' = [result EXCEPT !.Status = StatusDeclined,
                                               !.FinalResponse = <<resp>>]
                   /\ pc' = "save"
                   /\ UNCHANGED <<k, attemptNum, reason, invoked>>
              ELSE /\ k' = nk
                   /\ LoopHead(eligible, nk, attemptNum, result)
    /\ UNCHANGED <<invocation, handlerVars, lockVars, now, ctxDone, saved, windowSize, windowDuration, processors,
                   store, req, i, healthSeen, eligible, externalRecords>>

\* slip of the loop: the outcome of a hard decline is not reported to the
\* monitor before the call leaves the loop
RecordAndDecideHardDeclineNotRecorded ==
    /\ pc = "record"
    /\ LET resp == result.Attempts[Len(result.Attempts)].Response
       IN  IF resp.Code # Approved /\ IsHardDecline(resp.Code)
           THEN /\ result' = [result EXCEPT !.Status = StatusDeclined,
                                            !.FinalResponse = <<resp>>]
                /\ pc' = "save"
                /\ UNCHANGED <<k, attemptNum, reason, invoked, windows,
                               recorded>>
           ELSE /\ windows' = RecordOutcome(eligible[k].proc, resp.Code)
                /\ recorded' = Append(recorded, [name |-> eligible[k].proc,
                                                  code |-> resp.Code])
                /\ IF resp.Code = Approved
                   THEN /\ result' = [result EXCEPT
                                         !.Status = StatusApproved,
                                         !.FinalResponse = <<resp>>]
                        /\ pc' = "save"
                        /\ UNCHANGED <<k, attemptNum, reason, invoked>>
                   ELSE /\ k' = k + 1
                        /\ LoopHead(eligible, k + 1, attemptNum, result)
    /\ UNCHANGED <<invocation, handlerVars, lockVars, now, ctxDone, saved, windowSize, windowDuration, processors,
                   store, req, i, healthSeen, eligible, externalRecords>>

\* slip of the decision: the approved result is returned without being saved
RecordAndDecideApprovalNotSaved ==
    /\ pc = "record"
    /\ LET resp == result.Attempts[Len(result.Attempts)].Response
       IN  /\ windows' = RecordOutcome(eligible[k].proc, resp.Code)
           /\ recorded' = Append(recorded, [name |-> eligible[k].proc,
                                             code |-> resp.Code])
           /\ IF resp.Code = Approved
              THEN /\ result' = [result EXCEPT !.Status = StatusApproved,
                                               !.FinalResponse = <<resp>>]
                   /\ pc' = "done"
                   /\ UNCHANGED <<k, attemptNum, reason, invoked>>
              ELSE IF IsHardDecline(resp.Code)
              THEN /\ result' = [result EXCEPT !.Status = StatusDeclined,
                                               !.FinalResponse = <<resp>>]
                   /\ pc' = "save"
                   /\ UNCHANGED <<k, attemptNum, reason, invoked>>
              ELSE /\ k' = k + 1
                   /\ LoopHead(eligible, k + 1, attemptNum, result)
    /\ UNCHANGED <<invocation, handlerVars, lockVars, now, ctxDone, saved, windowSize, windowDuration, processors,
                   store, req, i, healthSeen, eligible, externalRecords>>

\* slip of the decision: the approval is not followed by a return
RecordAndDecideApprovalFallsThrough ==
    /\ pc = "record"
    /\ LET resp == result.Attempts[Len(result.Attempts)].Response
       IN  /\ windows' = RecordOutcome(eligible[k].proc, resp.Code)
           /\ recorded' = Append(recorded, [name |-> eligible[k].proc,
                                             code |-> resp.Code])
           /\ IF IsHardDecline(resp.Code)
              THEN /\ result' = [result EXCEPT !.Status = StatusDeclined,
                                               !.FinalResponse = <<resp>>]
                   /\ pc' = "save"
                   /\ UNCHANGED <<k, attemptNum, reason, invoked>>
              ELSE /\ k' = k + 1
                   /\ LoopHead(eligible, k + 1, attemptNum,
                               IF resp.Code = Approved
                               THEN [result EXCEPT !.Status = StatusApproved,
                                                   !.FinalResponse = <<resp>>]
                               ELSE result)
    /\ UNCHANGED <<invocation, handlerVars, lockVars, now, ctxDone, saved, windowSize, windowDuration, processors, store, req, i,
                   healthSeen, eligible, externalRecords>>

\* o.monitor.RecordOutcome, the decision on the response and, after a
\* retriable failure, the next pass through the head of the loop, lines 83-117
\* slip of the loop: after a retriable failure the same processor is tried
\* again
RecordAndDecideRetriesSame ==
    /\ pc = "record"
    /\ LET resp == result.Attempts[Len(result.Attempts)].Response
       IN  /\ windows' = RecordOutcome(eligible[k].proc, resp.Code)
           /\ recorded' = Append(recorded, [name |-> eligible[k].proc,
                                             code |-> resp.Code])
           /\ IF resp.Code = Approved
              THEN /\ result' = [result EXCEPT !.Status = StatusApproved,
                                               !.FinalResponse = <<resp>>]
                   /\ pc' = "save"
                   /\ UNCHANGED <<k, attemptNum, reason, invoked>>
              ELSE IF IsHardDecline(resp.Code)
              THEN /\ result' = [result EXCEPT !.Status = StatusDeclined,
                                               !.FinalResponse = <<resp>>]
                   /\ pc' = "save"
                   /\ UNCHANGED <<k, attemptNum, reason, invoked>>
              ELSE /\ k' = k
                   /\ LoopHead(eligible, k, attemptNum, result)
    /\ UNCHANGED <<invocation, handlerVars, lockVars, now, ctxDone, saved, windowSize, windowDuration, processors, store, req, i,
                   healthSeen, eligible, externalRecords>>

RecordAndDecide ==
    /\ pc = "record"
    /\ LET resp == result.Attempts[Len(result.Attempts)].Response
       IN  /\ windows' = RecordOutcome(eligible[k].proc, resp.Code)
           /\ recorded' = Append(recorded, [name |-> eligible[k].proc,
                                             code |-> resp.Code])
           /\ IF resp.Code = Approved
              THEN /\ result' = [result EXCEPT !.Status = StatusApproved,
                                               !.FinalResponse = <<resp>>]
                   /\ pc' = "save"
                   /\ UNCHANGED <<k, attemptNum, reason, invoked>>
              ELSE IF IsHardDecline(resp.Code)
              THEN /\ result' = [result EXCEPT !.Status = StatusDeclined,
                                               !.FinalResponse = <<resp>>]
                   /\ pc' = "save"
                   /\ UNCHANGED <<k, attemptNum, reason, invoked>>
              ELSE /\ k' = k + 1
                   /\ LoopHead(eligible, k + 1, attemptNum, result)
    /\ UNCHANGED <<invocation, handlerVars, lockVars, now, ctxDone, saved, windowSize, windowDuration, processors, store, req, i,
                   healthSeen, eligible, externalRecords>>

\* o.store.Save(result); return result
SaveAndReturn ==
    /\ pc = "save"
    /\ store' = Save(result)
    /\ saved' = Append(saved, result)
    /\ pc' = "done"
    /\ UNCHANGED <<invocation, handlerVars, lockVars, now, ctxDone, monitorVars, processors, req, result, i, healthSeen,
                   eligible, k, attemptNum, reason, invoked, recorded,
                   externalRecords>>

\* another caller of the shared Monitor records an outcome
ExternalRecord(name, code) ==
    /\ externalRecords < MaxExternalRecords
    /\ externalRecords' = externalRecords + 1
    /\ windows' = RecordOutcome(name, code)
    /\ UNCHANGED <<invocation, handlerVars, lockVars, now, ctxDone, saved, windowSize, windowDuration, processors, store, callVars>>

\* what other users of the PaymentStore save: results of other calls, under
\* the id of the call that is followed or under another id
StoreIDs == {"tx-001", "tx-002"}
ExternalResults ==
    {[TransactionID |-> id, Status |-> st, Attempts |-> <<>>,
      FinalResponse |-> <<>>] : id \in StoreIDs,
                               st \in {StatusApproved, StatusDeclined}}

\* another user of the shared PaymentStore saves a result
ExternalSave(res) ==
    /\ Len(saved) < MaxExternalSaves + (IF pc = "done" THEN 1 ELSE 0)
    /\ store' = Save(res)
    /\ saved' = Append(saved, res)
    /\ UNCHANGED <<invocation, handlerVars, lockVars, now, ctxDone, monitorVars, processors, callVars,
                   externalRecords>>

Next ==
    \/ \E txn \in TransactionIDs, method \in RequestMethods : Call(txn, method)
    \/ EligibilityStep
    \/ EligibilityDone
    \/ \E code \in ResponseCodes : ProcessReturn(code)
    \/ RecordAndDecide
    \/ SaveAndReturn
    \/ \E name \in ExternalNames, code \in ExternalCodes : ExternalRecord(name, code)

Spec == Init /\ [][Next]_vars

NextCall ==
    \/ \E txn \in TransactionIDs, method \in RequestMethods : Call(txn, method)
    \/ EligibilityStep
    \/ EligibilityDone
    \/ \E code \in ResponseCodes : ProcessReturn(code)
    \/ RecordAndDecide
    \/ SaveAndReturn

\* one call on an Orchestrator that nobody else uses
SpecCall == Init /\ [][NextCall]_vars

\* the caller cancels the context it passed to ProcessPayment (the handler
\* passes the context of the HTTP request); the call never reads it and
\* forwards it to ep.proc.Process, line 71
Cancel ==
    /\ ~ctxDone
    /\ ctxDone' = TRUE
    /\ UNCHANGED <<invocation, handlerVars, lockVars, now, saved, monitorVars, processors, store, callVars,
                   externalRecords>>

NextCancel ==
    \/ Next
    \/ Cancel

\* calls whose context can be cancelled
SpecCancel == Init /\ [][NextCancel]_vars

NextStore ==
    \/ \E txn \in TransactionIDs, method \in RequestMethods : Call(txn, method)
    \/ EligibilityStep
    \/ EligibilityDone
    \/ \E code \in ResponseCodes : ProcessReturn(code)
    \/ RecordAndDecide
    \/ SaveAndReturn
    \/ \E res \in ExternalResults : ExternalSave(res)

\* one call and the other users of the PaymentStore
SpecStore == Init /\ [][NextStore]_vars

\* the Monitor on its own: the processor whose outcomes its users record,
\* and a processor it has never heard of
MonitorNames == {"PayFlow"}
UnknownNames == {"CardMax"}

\* a user of the Monitor calls RecordOutcome(name, code)
MonitorRecord(name, code) ==
    /\ Len(recorded) < MaxMonitorRecords
    /\ windows' = RecordOutcome(name, code)
    /\ recorded' = Append(recorded, [name |-> name, code |-> code, at |-> now])
    /\ UNCHANGED <<invocation, handlerVars, lockVars, now, ctxDone, saved, windowSize, windowDuration, processors,
                   store, pc, req, result, i, healthSeen, eligible, k,
                   attemptNum, reason, invoked, externalRecords>>

\* time.Now() advances, by half the window duration
Tick ==
    /\ now < MaxTime
    /\ now' = now + windowDuration \div 2
    /\ UNCHANGED <<invocation, handlerVars, lockVars, ctxDone, saved, monitorVars, processors, store, callVars,
                   externalRecords>>

NextHealth ==
    \/ \E name \in MonitorNames, code \in ExternalCodes : MonitorRecord(name, code)
    \/ Tick

\* the Monitor with outcomes of two processors, and of one that is recorded
\* later than the others
AllHealthNames == {"PayFlow", "CardMax"}

NextAllHealth ==
    \/ \E name \in AllHealthNames : MonitorRecord(name, ProcessorError)
    \/ Tick

SpecAllHealth == Init /\ [][NextAllHealth]_vars

\* the Monitor of NewMonitor, approvals and failures recorded as time passes
SpecHealth == Init /\ [][NextHealth]_vars

\* NewMonitorWithConfig(5, 10*time.Minute)
TestWindowSize == 5

InitWindow ==
    /\ now = 0
    /\ windowSize = TestWindowSize
    /\ windowDuration = HealthWindowDurationMinutes
    /\ windows = <<>>
    /\ processors = MainPool
    /\ store = <<>>
    /\ pc = "idle"
    /\ req = NoRequest
    /\ result = NoResult
    /\ i = 0
    /\ healthSeen = <<>>
    /\ eligible = <<>>
    /\ k = 0
    /\ attemptNum = 0
    /\ reason = NoReason
    /\ invoked = <<>>
    /\ recorded = <<>>
    /\ externalRecords = 0
    /\ ctxDone = FALSE
    /\ saved = <<>>
    /\ httpRequest = NoBody
    /\ httpStatus = 0
    /\ httpBody = NoResponseBody
    /\ invocation = NoInvocation
    /\ goroutines = <<>>
    /\ monitorMu = Unlocked
    /\ storeMu = Unlocked

NextWindow ==
    \E name \in MonitorNames, code \in ResponseCodes : MonitorRecord(name, code)

\* the Monitor with a window of 5, every response code recorded
SpecWindow == InitWindow /\ [][NextWindow]_vars

\* the Monitor with a window of 5, approvals and failures recorded as time
\* passes
SpecEvict == InitWindow /\ [][NextHealth]_vars

\* the orchestrator built over the pool of 13 processors
InitWide ==
    /\ now = 0
    /\ windowSize = HealthWindowSize
    /\ windowDuration = HealthWindowDurationMinutes
    /\ windows = <<>>
    /\ processors = WidePool
    /\ store = <<>>
    /\ pc = "idle"
    /\ req = NoRequest
    /\ result = NoResult
    /\ i = 0
    /\ healthSeen = <<>>
    /\ eligible = <<>>
    /\ k = 0
    /\ attemptNum = 0
    /\ reason = NoReason
    /\ invoked = <<>>
    /\ recorded = <<>>
    /\ externalRecords = 0
    /\ ctxDone = FALSE
    /\ saved = <<>>
    /\ httpRequest = NoBody
    /\ httpStatus = 0
    /\ httpBody = NoResponseBody
    /\ invocation = NoInvocation
    /\ goroutines = <<>>
    /\ monitorMu = Unlocked
    /\ storeMu = Unlocked

SpecWide == InitWide /\ [][Next]_vars

----------------------------------------------------------------------------
(* internal/processor/mock.go: one call of MockProcessor.Process.  The clock *)
(* counts in units of the latency.                                           *)

\* MockConfig.MinLatency and MaxLatency; simulateLatency returns min plus
\* Int63n(max - min), a value from min to max - 1
MinLatency == 1
MaxLatency == 3
simulateLatency == MinLatency..(MaxLatency - 1)

\* determineOutcome: processor_error or approved in degraded mode, else one of
\* four codes by the distribution configured
determineOutcome(degraded) ==
    IF degraded THEN {ProcessorError, Approved}
    ELSE {Approved, SoftDecline, DeclinedInsufficientFunds, ProcessorError}

\* how long the clock of an invocation is followed
MaxProcessTime == 4

\* Process is called and reaches its select: the latency is drawn and
\* time.After(latency) evaluated
ProcessCall(name, latency) ==
    /\ invocation.pc = "idle"
    /\ invocation' = [pc |-> "select", name |-> name,
                      deadline |-> now + latency, inTime |-> ctxDone,
                      resp |-> <<>>]
    /\ UNCHANGED <<handlerVars, lockVars, now, ctxDone, saved, monitorVars,
                   processors, store, callVars, externalRecords>>

\* the cases of the select that can proceed
ReadyCases ==
    {c \in {"timer", "done"} :
        \/ c = "timer" /\ now >= invocation.deadline
        \/ c = "done" /\ ctxDone}

\* the select is executed: one of the cases that can proceed is chosen, and
\* the goroutine blocks on both channels when none can
SelectPoll ==
    /\ invocation.pc = "select"
    /\ IF ReadyCases = {}
       THEN invocation' = [invocation EXCEPT !.pc = "parked"]
       ELSE \E c \in ReadyCases : invocation' = [invocation EXCEPT !.pc = c]
    /\ UNCHANGED <<handlerVars, lockVars, now, ctxDone, saved, monitorVars,
                   processors, store, callVars, externalRecords>>

\* the context is cancelled: ctx.Done() is closed, which wakes a goroutine
\* blocked in the select with the case of ctx.Done()
CancelContext ==
    /\ ~ctxDone
    /\ ctxDone' = TRUE
    /\ invocation' =
          IF invocation.pc = "parked"
          THEN [invocation EXCEPT !.pc = "done", !.inTime = TRUE]
          ELSE IF invocation.pc = "select"
          THEN [invocation EXCEPT !.inTime = (now < invocation.deadline)]
          ELSE invocation
    /\ UNCHANGED <<handlerVars, lockVars, now, saved, monitorVars, processors,
                   store, callVars, externalRecords>>

\* time passes; the timer that reaches its time wakes a goroutine blocked in
\* the select with the case of time.After
Sleep ==
    /\ now < MaxProcessTime
    /\ now' = now + 1
    /\ invocation' =
          IF invocation.pc = "parked" /\ now + 1 >= invocation.deadline
          THEN [invocation EXCEPT !.pc = "timer"]
          ELSE invocation
    /\ UNCHANGED <<handlerVars, lockVars, ctxDone, saved, monitorVars,
                   processors, store, callVars, externalRecords>>

\* case <-ctx.Done(): the response "context cancelled"
ReturnCancelled ==
    /\ invocation.pc = "done"
    /\ invocation' = [invocation EXCEPT
                        !.pc = "returned",
                        !.resp = <<[ProcessorName |-> invocation.name,
                                    Code |-> Timeout]>>]
    /\ UNCHANGED <<handlerVars, lockVars, now, ctxDone, saved, monitorVars,
                   processors, store, callVars, externalRecords>>

\* case <-time.After(latency): the response of determineOutcome
ReturnOutcome(code) ==
    /\ invocation.pc = "timer"
    /\ invocation' = [invocation EXCEPT
                        !.pc = "returned",
                        !.resp = <<[ProcessorName |-> invocation.name,
                                    Code |-> code]>>]
    /\ UNCHANGED <<handlerVars, lockVars, now, ctxDone, saved, monitorVars,
                   processors, store, callVars, externalRecords>>

NextProcess ==
    \/ \E n \in 1..Len(processors), latency \in simulateLatency :
           ProcessCall(processors[n].name, latency)
    \/ SelectPoll
    \/ CancelContext
    \/ Sleep
    \/ ReturnCancelled
    \/ \E degraded \in BOOLEAN :
           \E code \in determineOutcome(degraded) : ReturnOutcome(code)

\* one call of Process on a processor of the pool, with a context that its
\* caller may cancel
SpecProcess == Init /\ [][NextProcess]_vars

----------------------------------------------------------------------------
(* internal/handler: POST /payments *)

\* slip of the validation: the amount is not looked at
validatePaymentRequestNoAmount(r) ==
    IF r.TransactionID = "" THEN "transaction_id is required"
    ELSE IF r.Currency = "" THEN "currency is required"
    ELSE IF r.PaymentMethod \notin {"card", "pix", "oxxo", "pse"}
    THEN "payment_method must be one of: card, pix, oxxo, pse"
    ELSE IF r.CustomerID = "" THEN "customer_id is required"
    ELSE ""

\* validatePaymentRequest: the message of the first check that fails, "" when
\* none does
validatePaymentRequest(r) ==
    IF r.TransactionID = "" THEN "transaction_id is required"
    ELSE IF r.Amount <= 0 THEN "amount must be greater than 0"
    ELSE IF r.Currency = "" THEN "currency is required"
    ELSE IF r.PaymentMethod \notin {"card", "pix", "oxxo", "pse"}
    THEN "payment_method must be one of: card, pix, oxxo, pse"
    ELSE IF r.CustomerID = "" THEN "customer_id is required"
    ELSE ""

\* net/http status codes
StatusOK == 200
StatusBadRequest == 400
StatusUnprocessableEntity == 422

\* the bodies the model posts: every field valid or not, and a body that
\* json.Decode rejects
Bodies ==
    {[TransactionID |-> t, Amount |-> a, Currency |-> c, PaymentMethod |-> m,
      CustomerID |-> u, decodes |-> TRUE] :
         t \in {"", "tx-001"}, a \in {-1, 0, 100}, c \in {"", "USD"},
         m \in {"card", "pse", "crypto"}, u \in {"", "cust-1"}}
    \cup {NoBody}

\* the payments the handler passes on to the orchestrator, at most
MaxPayments == 2

\* the response codes of the processors behind the handler: one approval,
\* one hard decline, one retriable failure
HandlerCodes == {Approved, DeclinedInsufficientFunds, Timeout}

\* Handler.ProcessPayment up to the call of h.orch.ProcessPayment: a body that
\* does not decode or does not validate is answered 400 and the handler
\* returns; otherwise ProcessPayment is entered with the decoded request
Post(body) ==
    /\ pc = "idle" \/ httpStatus # 0
    /\ httpRequest' = body
    /\ IF ~body.decodes \/ validatePaymentRequest(body) # ""
       THEN /\ httpStatus' = StatusBadRequest
            /\ httpBody' = [error |-> IF ~body.decodes
                                      THEN "invalid request body"
                                      ELSE validatePaymentRequest(body)]
            /\ UNCHANGED callVars
       ELSE /\ Len(saved) < MaxPayments
            /\ httpStatus' = 0
            /\ httpBody' = NoResponseBody
            /\ pc' = "eligibility"
            /\ req' = [TransactionID |-> body.TransactionID,
                       PaymentMethod |-> body.PaymentMethod]
            /\ result' = [TransactionID |-> body.TransactionID, Status |-> "",
                          Attempts |-> <<>>, FinalResponse |-> <<>>]
            /\ i' = 1
            /\ eligible' = <<>>
            /\ healthSeen' = <<>>
            /\ k' = 0
            /\ attemptNum' = 0
            /\ reason' = NoReason
            /\ invoked' = <<>>
            /\ recorded' = <<>>
    /\ UNCHANGED <<invocation, lockVars, now, ctxDone, saved, monitorVars, processors,
                   store, externalRecords>>

\* json.NewEncoder(w).Encode of a PaymentResult: the fields under their json
\* tags, a nil FinalResponse as null
EncodeResponse(r) == [processor_name |-> r.ProcessorName, code |-> r.Code]
EncodeAttempt(a) ==
    [processor_name |-> a.ProcessorName, response |-> EncodeResponse(a.Response),
     routing_reason |-> a.RoutingReason, attempt_number |-> a.AttemptNumber,
     timestamp |-> a.Timestamp]
EncodeResult(res) ==
    [transaction_id |-> res.TransactionID, status |-> res.Status,
     attempts |-> [j \in 1..Len(res.Attempts) |-> EncodeAttempt(res.Attempts[j])],
     final_response |-> IF res.FinalResponse = <<>> THEN "null"
                        ELSE EncodeResponse(res.FinalResponse[1])]

\* Handler.ProcessPayment after h.orch.ProcessPayment has returned: 422 for a
\* declined or exhausted payment, 200 otherwise, with the result as the body;
\* the first definition is a slip of it, 422 for a declined payment only
RespondOKUnlessDeclined ==
    /\ pc = "done"
    /\ httpStatus = 0
    /\ httpStatus' = IF result.Status \in {StatusDeclined}
                     THEN StatusUnprocessableEntity
                     ELSE StatusOK
    /\ httpBody' = EncodeResult(result)
    /\ UNCHANGED <<invocation, httpRequest, lockVars, now, ctxDone, saved, monitorVars,
                   processors, store, callVars, externalRecords>>

Respond ==
    /\ pc = "done"
    /\ httpStatus = 0
    /\ httpStatus' = IF result.Status \in {StatusDeclined, StatusExhaustedRetries}
                     THEN StatusUnprocessableEntity
                     ELSE StatusOK
    /\ httpBody' = EncodeResult(result)
    /\ UNCHANGED <<invocation, httpRequest, lockVars, now, ctxDone, saved, monitorVars,
                   processors, store, callVars, externalRecords>>

NextHandler ==
    \/ \E body \in Bodies : Post(body)
    \/ EligibilityStep
    \/ EligibilityDone
    \/ \E code \in HandlerCodes : ProcessReturn(code)
    \/ RecordAndDecide
    \/ SaveAndReturn
    \/ Respond

\* the server handling POST /payments requests one after the other
SpecHandler == Init /\ [][NextHandler]_vars

----------------------------------------------------------------------------
(* Concurrent callers.  Each goroutine runs its calls statement by statement; *)
(* the sections of RecordOutcome, GetHealth and Save between the Lock and    *)
(* the deferred Unlock are steps of their own.                               *)

\* what the goroutines leave alone: the single call that Spec follows
tracedVars == <<invocation, handlerVars, callVars, externalRecords, ctxDone, saved>>

\* slip of the mutex: Lock does not wait for the writer that holds it
CanLockNoWait(mu) == mu.readers = {}

\* sync.RWMutex: Lock waits until no writer and no reader holds the mutex,
\* RLock until no writer does
CanLock(mu) == mu.writer = NoGoroutine /\ mu.readers = {}
CanRLock(mu) == mu.writer = NoGoroutine
Lock(mu, g) == [mu EXCEPT !.writer = g]
\* slip of the write section: the lock is not given back
UnlockKeeps(mu, g) == mu

Unlock(mu, g) == [mu EXCEPT !.writer = NoGoroutine]
RLock(mu, g) == [mu EXCEPT !.readers = @ \cup {g}]

\* slip of the read section: the read lock is not given back
RUnlockKeeps(mu, g) == mu

RUnlock(mu, g) == [mu EXCEPT !.readers = @ \ {g}]

NoHealth == [ProcessorName |-> "", HealthScore |-> ScoreOne, Status |-> "",
             TotalRecent |-> 0, ApprovedCount |-> 0, ErrorCount |-> 0,
             LastUpdated |-> 0]

\* a goroutine before its first statement: kind says what it runs, at is the
\* call it is in and step how far it is inside that call; name and code are
\* the arguments of its call on the Monitor, local the slice it has loaded
\* and health what GetHealth returned to it
Goroutine(kind, at, name, code, txn) ==
    [kind |-> kind, at |-> at, step |-> "call", name |-> name, code |-> code,
     local |-> <<>>, health |-> NoHealth, method |-> "card",
     i |-> 1, eligible |-> <<>>, k |-> 0, attemptNum |-> 0,
     reason |-> NoReason,
     result |-> [TransactionID |-> txn, Status |-> "", Attempts |-> <<>>,
                 FinalResponse |-> <<>>]]

\* the index of the first processor from index from on that supports the
\* method, Len(processors) + 1 when there is none
NextSupporting(from, method) ==
    LET S == {j \in from..Len(processors) :
                 SupportsMethod(processors[j], method)}
    IN  IF S = {} THEN Len(processors) + 1
        ELSE CHOOSE j \in S : \A m \in S : j <= m

\* the head of the loop of ProcessPayment, for the goroutine state t
GoLoopHead(t) ==
    IF t.k > Len(t.eligible) \/ t.attemptNum >= MaxRetries
    THEN [t EXCEPT !.result.Status = StatusExhaustedRetries,
                   !.result.FinalResponse =
                       IF Len(t.result.Attempts) > 0
                       THEN <<t.result.Attempts[Len(t.result.Attempts)].Response>>
                       ELSE <<>>,
                   !.at = "Save", !.step = "call"]
    ELSE [t EXCEPT !.attemptNum = @ + 1,
                   !.reason = buildRoutingReason(t.eligible[t.k],
                                                 t.attemptNum + 1, t.result),
                   !.name = t.eligible[t.k].proc,
                   !.at = "Process", !.step = "call"]

\* getEligibleProcessors moves on to the processor of index from: the next
\* one that supports the method is asked for its health, or the list is
\* sorted and the loop of ProcessPayment is entered
GoEligibility(t, from) ==
    LET j == NextSupporting(from, t.method)
        sorted == pdqsort_func(t.eligible)
    IN  IF j <= Len(processors)
        THEN [t EXCEPT !.i = j, !.name = processors[j].name,
                       !.at = "getEligibleProcessors", !.step = "call"]
        ELSE IF Len(sorted) = 0
        THEN [t EXCEPT !.i = j, !.eligible = sorted,
                       !.result.Status = StatusDeclined,
                       !.at = "Save", !.step = "call"]
        ELSE GoLoopHead([t EXCEPT !.i = j, !.eligible = sorted, !.k = 1])

\* what the goroutine does once GetHealth has returned t.health
AfterHealth(t) ==
    IF t.kind = "test"
    THEN IF t.at = "GetHealth"
         THEN [t EXCEPT !.at = "IsCircuitOpen", !.step = "call"]
         ELSE [t EXCEPT !.at = "finished", !.step = "call"]
    ELSE LET h == t.health
             el == IF h.Status = StatusOpen THEN t.eligible
                   ELSE Append(t.eligible,
                               [proc |-> h.ProcessorName,
                                healthScore |-> h.HealthScore,
                                status |-> h.Status])
         IN  GoEligibility([t EXCEPT !.eligible = el], t.i + 1)

\* what the goroutine does once RecordOutcome has returned
AfterRecord(t) ==
    IF t.kind = "test"
    THEN [t EXCEPT !.at = "GetHealth", !.step = "call"]
    ELSE LET resp == t.result.Attempts[Len(t.result.Attempts)].Response
         IN  IF resp.Code = Approved
             THEN [t EXCEPT !.result.Status = StatusApproved,
                            !.result.FinalResponse = <<resp>>,
                            !.at = "Save", !.step = "call"]
             ELSE IF IsHardDecline(resp.Code)
             THEN [t EXCEPT !.result.Status = StatusDeclined,
                            !.result.FinalResponse = <<resp>>,
                            !.at = "Save", !.step = "call"]
             ELSE GoLoopHead([t EXCEPT !.k = @ + 1])

\* RecordOutcome: m.mu.Lock()
MonitorLock(g) ==
    /\ goroutines[g].at = "RecordOutcome"
    /\ goroutines[g].step = "call"
    /\ CanLock(monitorMu)
    /\ monitorMu' = Lock(monitorMu, g)
    /\ goroutines' = [goroutines EXCEPT ![g].step = "locked"]
    /\ UNCHANGED <<tracedVars, now, monitorVars, processors, store, storeMu>>

\* RecordOutcome: m.windows[processorName] is read
RecordLoad(g) ==
    /\ goroutines[g].at = "RecordOutcome"
    /\ goroutines[g].step = "locked"
    /\ goroutines' = [goroutines EXCEPT
                        ![g].local = Window(goroutines[g].name),
                        ![g].step = "loaded"]
    /\ UNCHANGED <<tracedVars, now, monitorVars, processors, store, storeMu,
                   monitorMu>>

\* RecordOutcome: the slice with the outcome appended is written to
\* m.windows[processorName], and pruneWindow cuts it
RecordStore(g) ==
    /\ goroutines[g].at = "RecordOutcome"
    /\ goroutines[g].step = "loaded"
    /\ LET t == goroutines[g]
           appended == Append(t.local, [approved |-> (t.code = Approved),
                                        timestamp |-> now])
       IN  windows' = (t.name :> pruneWindow(appended)) @@ windows
    /\ goroutines' = [goroutines EXCEPT ![g].step = "stored"]
    /\ UNCHANGED <<tracedVars, now, windowSize, windowDuration, processors,
                   store, storeMu, monitorMu>>

\* RecordOutcome: the deferred m.mu.Unlock(), and the caller goes on
MonitorUnlock(g) ==
    /\ goroutines[g].at = "RecordOutcome"
    /\ goroutines[g].step = "stored"
    /\ monitorMu' = Unlock(monitorMu, g)
    /\ goroutines' = [goroutines EXCEPT ![g] = AfterRecord(goroutines[g])]
    /\ UNCHANGED <<tracedVars, now, monitorVars, processors, store, storeMu>>

\* the calls that take the read lock of the Monitor
HealthCalls == {"GetHealth", "IsCircuitOpen", "getEligibleProcessors"}

\* GetHealth: m.mu.RLock()
MonitorRLock(g) ==
    /\ goroutines[g].at \in HealthCalls
    /\ goroutines[g].step = "call"
    /\ CanRLock(monitorMu)
    /\ monitorMu' = RLock(monitorMu, g)
    /\ goroutines' = [goroutines EXCEPT ![g].step = "locked"]
    /\ UNCHANGED <<tracedVars, now, monitorVars, processors, store, storeMu>>

\* GetHealth: the active window is read and the health computed
HealthRead(g) ==
    /\ goroutines[g].at \in HealthCalls
    /\ goroutines[g].step = "locked"
    /\ goroutines' = [goroutines EXCEPT
                        ![g].health = GetHealth(goroutines[g].name),
                        ![g].step = "read"]
    /\ UNCHANGED <<tracedVars, now, monitorVars, processors, store, storeMu,
                   monitorMu>>

\* GetHealth: the deferred m.mu.RUnlock(), and the caller goes on
MonitorRUnlock(g) ==
    /\ goroutines[g].at \in HealthCalls
    /\ goroutines[g].step = "read"
    /\ monitorMu' = RUnlock(monitorMu, g)
    /\ goroutines' = [goroutines EXCEPT ![g] = AfterHealth(goroutines[g])]
    /\ UNCHANGED <<tracedVars, now, monitorVars, processors, store, storeMu>>

\* slip of the loop: the result is saved after every attempt, before its
\* status is set
GoProcessReturnSaves(g, code) ==
    /\ goroutines[g].at = "Process"
    /\ LET t == goroutines[g]
           resp == [ProcessorName |-> t.name, Code |-> code]
           attempt == [ProcessorName |-> t.name, Response |-> resp,
                       RoutingReason |-> t.reason,
                       AttemptNumber |-> t.attemptNum, Timestamp |-> now]
       IN  /\ goroutines' = [goroutines EXCEPT
                               ![g].result.Attempts = Append(@, attempt),
                               ![g].code = code,
                               ![g].at = "RecordOutcome",
                               ![g].step = "call"]
           /\ store' = Save([t.result EXCEPT !.Attempts = Append(@, attempt)])
    /\ UNCHANGED <<tracedVars, now, monitorVars, processors, storeMu,
                   monitorMu>>

\* ep.proc.Process returns code: the attempt is appended to the result
GoProcessReturn(g, code) ==
    /\ goroutines[g].at = "Process"
    /\ LET t == goroutines[g]
           resp == [ProcessorName |-> t.name, Code |-> code]
           attempt == [ProcessorName |-> t.name, Response |-> resp,
                       RoutingReason |-> t.reason,
                       AttemptNumber |-> t.attemptNum, Timestamp |-> now]
       IN  goroutines' = [goroutines EXCEPT
                            ![g].result.Attempts = Append(@, attempt),
                            ![g].code = code,
                            ![g].at = "RecordOutcome",
                            ![g].step = "call"]
    /\ UNCHANGED <<tracedVars, now, monitorVars, processors, store, storeMu,
                   monitorMu>>

\* Save: s.mu.Lock()
StoreLock(g) ==
    /\ goroutines[g].at = "Save"
    /\ goroutines[g].step = "call"
    /\ CanLock(storeMu)
    /\ storeMu' = Lock(storeMu, g)
    /\ goroutines' = [goroutines EXCEPT ![g].step = "locked"]
    /\ UNCHANGED <<tracedVars, now, monitorVars, processors, store, monitorMu>>

\* Save: s.results[result.TransactionID] = result
StoreWrite(g) ==
    /\ goroutines[g].at = "Save"
    /\ goroutines[g].step = "locked"
    /\ store' = Save(goroutines[g].result)
    /\ goroutines' = [goroutines EXCEPT ![g].step = "stored"]
    /\ UNCHANGED <<tracedVars, now, monitorVars, processors, storeMu,
                   monitorMu>>

\* Save: the deferred s.mu.Unlock(); ProcessPayment returns the result
StoreUnlock(g) ==
    /\ goroutines[g].at = "Save"
    /\ goroutines[g].step = "stored"
    /\ storeMu' = Unlock(storeMu, g)
    /\ goroutines' = [goroutines EXCEPT ![g].at = "returned",
                                        ![g].step = "call"]
    /\ UNCHANGED <<tracedVars, now, monitorVars, processors, store, monitorMu>>

\* TestMonitor_ConcurrentAccess: the goroutines that record on "ConcProc",
\* every third one a processor error, and the window sizes they meet
MonitorGoroutines == 3
ConcurrentWindowSizes == {2, HealthWindowSize}
ConcProc == "ConcProc"

InitMonitorTest ==
    /\ now = 0
    /\ windowSize \in ConcurrentWindowSizes
    /\ windowDuration = HealthWindowDurationMinutes
    /\ windows = <<>>
    /\ processors = MainPool
    /\ store = <<>>
    /\ pc = "idle"
    /\ req = NoRequest
    /\ result = NoResult
    /\ i = 0
    /\ healthSeen = <<>>
    /\ eligible = <<>>
    /\ k = 0
    /\ attemptNum = 0
    /\ reason = NoReason
    /\ invoked = <<>>
    /\ recorded = <<>>
    /\ externalRecords = 0
    /\ ctxDone = FALSE
    /\ saved = <<>>
    /\ httpRequest = NoBody
    /\ httpStatus = 0
    /\ httpBody = NoResponseBody
    /\ invocation = NoInvocation
    /\ goroutines = [g \in 1..MonitorGoroutines |->
                       Goroutine("test", "RecordOutcome", ConcProc,
                                 IF g % 3 = 0 THEN ProcessorError
                                 ELSE Approved, "")]
    /\ monitorMu = Unlocked
    /\ storeMu = Unlocked

NextMonitorTest ==
    \E g \in DOMAIN goroutines :
        \/ MonitorLock(g)
        \/ RecordLoad(g)
        \/ RecordStore(g)
        \/ MonitorUnlock(g)
        \/ MonitorRLock(g)
        \/ HealthRead(g)
        \/ MonitorRUnlock(g)

\* goroutines that call RecordOutcome, GetHealth and IsCircuitOpen on one
\* Monitor
SpecMonitorTest == InitMonitorTest /\ [][NextMonitorTest]_vars

\* TestProcessPayment_ConcurrentPayments: the goroutines that call
\* ProcessPayment, each with its own transaction id, on two processors that
\* support card and pix
PaymentGoroutines == 2
ConcurrentIDs == <<"tx-conc-0", "tx-conc-1", "tx-conc-2", "tx-conc-3">>
ProcA == [name |-> "ProcA", methods |-> {"card", "pix"}]
ProcB == [name |-> "ProcB", methods |-> {"card", "pix"}]
ConcurrentCodes == {Approved, DeclinedFraud, Timeout}

InitPayments ==
    /\ now = 0
    /\ windowSize = HealthWindowSize
    /\ windowDuration = HealthWindowDurationMinutes
    /\ windows = <<>>
    /\ processors = <<ProcA, ProcB>>
    /\ store = <<>>
    /\ pc = "idle"
    /\ req = NoRequest
    /\ result = NoResult
    /\ i = 0
    /\ healthSeen = <<>>
    /\ eligible = <<>>
    /\ k = 0
    /\ attemptNum = 0
    /\ reason = NoReason
    /\ invoked = <<>>
    /\ recorded = <<>>
    /\ externalRecords = 0
    /\ ctxDone = FALSE
    /\ saved = <<>>
    /\ httpRequest = NoBody
    /\ httpStatus = 0
    /\ httpBody = NoResponseBody
    /\ invocation = NoInvocation
    /\ goroutines = [g \in 1..PaymentGoroutines |->
                       GoEligibility(
                           Goroutine("payment", "ProcessPayment", "", "",
                                     ConcurrentIDs[g]), 1)]
    /\ monitorMu = Unlocked
    /\ storeMu = Unlocked

NextPayments ==
    \E g \in DOMAIN goroutines :
        \/ MonitorRLock(g)
        \/ HealthRead(g)
        \/ MonitorRUnlock(g)
        \/ \E code \in ConcurrentCodes : GoProcessReturn(g, code)
        \/ MonitorLock(g)
        \/ RecordLoad(g)
        \/ RecordStore(g)
        \/ MonitorUnlock(g)
        \/ StoreLock(g)
        \/ StoreWrite(g)
        \/ StoreUnlock(g)

\* concurrent ProcessPayment calls on one Orchestrator
SpecPayments == InitPayments /\ [][NextPayments]_vars

\* an Orchestrator over the pool, and one goroutine per transaction id of
\* ids, each about to call ProcessPayment with its id
InitCalls(pool, ids) ==
    /\ now = 0
    /\ windowSize = HealthWindowSize
    /\ windowDuration = HealthWindowDurationMinutes
    /\ windows = <<>>
    /\ processors = pool
    /\ store = <<>>
    /\ pc = "idle"
    /\ req = NoRequest
    /\ result = NoResult
    /\ i = 0
    /\ healthSeen = <<>>
    /\ eligible = <<>>
    /\ k = 0
    /\ attemptNum = 0
    /\ reason = NoReason
    /\ invoked = <<>>
    /\ recorded = <<>>
    /\ externalRecords = 0
    /\ ctxDone = FALSE
    /\ saved = <<>>
    /\ httpRequest = NoBody
    /\ httpStatus = 0
    /\ httpBody = NoResponseBody
    /\ invocation = NoInvocation
    /\ goroutines = [g \in 1..Len(ids) |->
                       GoEligibility(
                           Goroutine("payment", "ProcessPayment", "", "",
                                     ids[g]), 1)]
    /\ monitorMu = Unlocked
    /\ storeMu = Unlocked

\* the steps of goroutine g, its processors answering approved or timeout
GoStep(g) ==
    \/ MonitorRLock(g)
    \/ HealthRead(g)
    \/ MonitorRUnlock(g)
    \/ \E code \in {Approved, Timeout} : GoProcessReturn(g, code)
    \/ MonitorLock(g)
    \/ RecordLoad(g)
    \/ RecordStore(g)
    \/ MonitorUnlock(g)
    \/ StoreLock(g)
    \/ StoreWrite(g)
    \/ StoreUnlock(g)

NextFair == \E g \in DOMAIN goroutines : GoStep(g)

\* concurrent ProcessPayment calls on the pool of main.go; as long as some
\* goroutine can take a step, one is taken: the scheduler runs a runnable
\* goroutine, and every Process call returns
SpecFair ==
    /\ InitCalls(MainPool, SubSeq(ConcurrentIDs, 1, PaymentGoroutines))
    /\ [][NextFair]_vars
    /\ WF_vars(NextFair)

\* a pse request, which PayFlow and GlobalPay can serve, while other callers
\* record failures of PayFlow and time passes
RecoveryMethods == {"pse"}
RecoveryCodes == {Approved, Timeout}

NextRecovery ==
    \/ \E txn \in TransactionIDs, method \in RecoveryMethods : Call(txn, method)
    \/ EligibilityStep
    \/ EligibilityDone
    \/ \E code \in RecoveryCodes : ProcessReturn(code)
    \/ RecordAndDecide
    \/ SaveAndReturn
    \/ \E name \in MonitorNames : ExternalRecord(name, ProcessorError)
    \/ Tick

SpecRecovery == Init /\ [][NextRecovery]_vars

\* one request on the pool of 13 processors while other callers record
\* outcomes of PayFlow
NextWideCall ==
    \/ \E txn \in TransactionIDs, method \in RequestMethods : Call(txn, method)
    \/ EligibilityStep
    \/ EligibilityDone
    \/ \E code \in ResponseCodes : ProcessReturn(code)
    \/ RecordAndDecide
    \/ SaveAndReturn
    \/ \E name \in MonitorNames, code \in ExternalCodes :
           ExternalRecord(name, code)

SpecWideCall == InitWide /\ [][NextWideCall]_vars

\* the calls on the Monitor taken one at a time: healthSeen holds what the
\* last read obtained
MaxFrameRecords == 3

\* slip of GetHealth: the active window it computed is written back to
\* m.windows
GetHealthCallPrunes(processorName) ==
    /\ healthSeen' = (processorName :> GetHealth(processorName))
    /\ windows' = (processorName :> getActiveWindow(processorName)) @@ windows
    /\ UNCHANGED <<invocation, handlerVars, lockVars, now, ctxDone, saved,
                   windowSize, windowDuration, processors, store, pc, req,
                   result, i, eligible, k, attemptNum, reason, invoked,
                   recorded, externalRecords>>

\* GetHealth(processorName): getActiveWindow filters m.windows[processorName]
\* into a slice of its own, and nothing is assigned to m.windows
GetHealthCall(processorName) ==
    /\ healthSeen' = (processorName :> GetHealth(processorName))
    /\ UNCHANGED <<invocation, handlerVars, lockVars, now, ctxDone, saved,
                   monitorVars, processors, store, pc, req, result, i,
                   eligible, k, attemptNum, reason, invoked, recorded,
                   externalRecords>>

\* GetAllHealth(): the keys of m.windows are copied, then GetHealth is called
\* for each of them
GetAllHealthCall ==
    /\ healthSeen' = [name \in DOMAIN windows |-> GetHealth(name)]
    /\ UNCHANGED <<invocation, handlerVars, lockVars, now, ctxDone, saved,
                   monitorVars, processors, store, pc, req, result, i,
                   eligible, k, attemptNum, reason, invoked, recorded,
                   externalRecords>>

\* IsCircuitOpen(processorName): h := m.GetHealth(processorName), and the
\* status of h is compared with circuit_open
IsCircuitOpenCall(processorName) ==
    /\ healthSeen' = (processorName :> GetHealth(processorName))
    /\ UNCHANGED <<invocation, handlerVars, lockVars, now, ctxDone, saved,
                   monitorVars, processors, store, pc, req, result, i,
                   eligible, k, attemptNum, reason, invoked, recorded,
                   externalRecords>>

NextFrame ==
    \/ \E name \in AllHealthNames, code \in ExternalCodes :
           /\ Len(recorded) < MaxFrameRecords
           /\ MonitorRecord(name, code)
    \/ \E name \in AllHealthNames : GetHealthCall(name)
    \/ GetAllHealthCall
    \/ \E name \in AllHealthNames : IsCircuitOpenCall(name)
    \/ Tick

\* RecordOutcome, GetHealth, GetAllHealth and IsCircuitOpen called on one
\* Monitor as time passes
SpecFrame == Init /\ [][NextFrame]_vars

\* two ProcessPayment calls that carry the same transaction id
DuplicateID == "tx-dup"

\* concurrent ProcessPayment calls with one transaction id on one Orchestrator
SpecDuplicate ==
    InitCalls(<<ProcA, ProcB>>, <<DuplicateID, DuplicateID>>)
        /\ [][NextPayments]_vars

----------------------------------------------------------------------------
(* The claims.  The code sets named by a claim are written out here as the   *)
(* claim names them, independently of IsRetriable and IsHardDecline.         *)

HardDeclineCodes == {"declined_insufficient_funds", "declined_fraud"}
RetriableCodes == {"soft_decline", "processor_error", "timeout", "rate_limited"}

\* ProcessPayment has fixed its result (it is about to save it, or has returned)
Terminated == pc \in {"save", "done"}
Returned == pc = "done"
\* getEligibleProcessors has returned
EligibilityComplete == pc \in {"process", "record", "save", "done"}

CodeOf(r, j) == r.Attempts[j].Response.Code
LastCode(r) == CodeOf(r, Len(r.Attempts))
EligibleNames == {eligible[j].proc : j \in 1..Len(eligible)}
InvokedNames == {invoked[j] : j \in 1..Len(invoked)}
Supporting == {processors[j].name : j \in {n \in 1..Len(processors) :
                   req.PaymentMethod \in processors[n].methods}}
Min(a, b) == IF a < b THEN a ELSE b
AtLeast(a, b) == a.num * b.den >= b.num * a.den
PoolIndex(name) == CHOOSE n \in 1..Len(processors) : processors[n].name = name

\* C1: ProcessPayment invokes at most 3 processors, and the result it builds,
\* returns and stores has at most 3 attempts.
C1_AtMostThreeAttempts ==
    /\ Len(invoked) <= 3
    /\ Len(result.Attempts) <= 3
    /\ \A id \in DOMAIN store : Len(store[id].Attempts) <= 3

\* the call returned after 3 retriable failures with 4 eligible processors,
\* the 4th of them never invoked
C1_Witness ==
    /\ Returned
    /\ Len(eligible) = 4
    /\ Len(invoked) = 3
    /\ Len(store[req.TransactionID].Attempts) = 3
    /\ \A j \in 1..3 : CodeOf(result, j) \in RetriableCodes
    /\ eligible[4].proc \notin InvokedNames

\* C2: once an attempt has returned a hard-decline code, that attempt stays
\* the last one, no further processor is invoked, and the call ends with the
\* status declined.
C2_HardDeclineStops ==
    \A j \in 1..Len(result.Attempts) :
        CodeOf(result, j) \in HardDeclineCodes =>
            /\ j = Len(result.Attempts)
            /\ Len(invoked) = j
            /\ pc \in {"record", "save", "done"}
            /\ Terminated => result.Status = "declined"
            /\ Returned => store[req.TransactionID].Status = "declined"

\* the call returned declined after a hard decline, with an attempt slot and
\* an eligible processor left over
C2_Witness ==
    /\ Returned
    /\ Len(result.Attempts) > 0
    /\ LastCode(result) = "declined_fraud"
    /\ Len(result.Attempts) < 3
    /\ Len(result.Attempts) < Len(eligible)
    /\ result.Status = "declined"

\* C3 as stated: a request in which some attempt returns a hard-decline code
\* has exactly one attempt.
C3_Original ==
    (\E j \in 1..Len(result.Attempts) : CodeOf(result, j) \in HardDeclineCodes)
        => Len(result.Attempts) = 1

\* C3 amended: the attempt that returns a hard-decline code is the last
\* attempt, every attempt before it returned a retriable code, and when it is
\* the first attempt the transaction has exactly one attempt.
C3_HardDeclineIsLast ==
    /\ \A j \in 1..Len(result.Attempts) :
           CodeOf(result, j) \in HardDeclineCodes =>
               /\ j = Len(result.Attempts)
               /\ \A n \in 1..(j - 1) : CodeOf(result, n) \in RetriableCodes
    /\ (Len(result.Attempts) >= 1 /\ CodeOf(result, 1) \in HardDeclineCodes)
           => Len(result.Attempts) = 1
    /\ \A id \in DOMAIN store :
           \A j \in 1..Len(store[id].Attempts) :
               CodeOf(store[id], j) \in HardDeclineCodes
                   => j = Len(store[id].Attempts)

\* a hard decline on the first attempt, more processors being eligible
C3_Witness ==
    /\ Returned
    /\ Len(result.Attempts) = 1
    /\ CodeOf(result, 1) \in HardDeclineCodes
    /\ Len(eligible) >= 2
    /\ Len(store[req.TransactionID].Attempts) = 1

\* C4: after attempt j returned a retriable code, with j < 3 and a processor
\* left in the eligible list, the next thing the call does is invoke
\* eligible[j+1] as attempt j+1.
C4_RetriableContinues ==
    \A j \in 1..Len(result.Attempts) :
        ( /\ CodeOf(result, j) \in RetriableCodes
          /\ j < 3
          /\ j < Len(eligible)
          /\ ~(j = Len(result.Attempts) /\ pc = "record") )
        => /\ Len(invoked) >= j + 1
           /\ invoked[j + 1] = eligible[j + 1].proc
           /\ Len(result.Attempts) >= j + 1 =>
                  /\ result.Attempts[j + 1].ProcessorName = eligible[j + 1].proc
                  /\ result.Attempts[j + 1].AttemptNumber = j + 1

\* three attempts were made, the first two failing with retriable codes
C4_Witness ==
    /\ Returned
    /\ Len(result.Attempts) = 3
    /\ CodeOf(result, 1) = "soft_decline"
    /\ CodeOf(result, 2) = "timeout"
    /\ invoked = <<eligible[1].proc, eligible[2].proc, eligible[3].proc>>

ApprovedOnlyLast(r) ==
    /\ r.Status = "approved" <=>
           (Len(r.Attempts) > 0 /\ LastCode(r) = "approved")
    /\ \A j \in 1..(Len(r.Attempts) - 1) : CodeOf(r, j) # "approved"

\* C5: a result has the status approved iff its last attempt's code is
\* approved, and no attempt other than the last has the code approved.
C5_ApprovedIffLastApproved ==
    /\ Terminated => ApprovedOnlyLast(result)
    /\ \A j \in 1..(Len(result.Attempts) - 1) : CodeOf(result, j) # "approved"
    /\ \A id \in DOMAIN store : ApprovedOnlyLast(store[id])

\* approved on the third attempt
C5_Witness ==
    /\ Returned
    /\ result.Status = "approved"
    /\ Len(result.Attempts) = 3
    /\ LastCode(result) = "approved"
    /\ store[req.TransactionID].Status = "approved"

DeclinedJustified(r) ==
    r.Status = "declined" =>
        \/ Len(r.Attempts) = 0
        \/ LastCode(r) \in HardDeclineCodes

\* C6: a result with the status declined has zero attempts (and then no
\* processor was eligible) or a last attempt whose code is a hard decline.
C6_DeclinedIsHardOrEmpty ==
    /\ Terminated => DeclinedJustified(result)
    /\ (Terminated /\ result.Status = "declined" /\ Len(result.Attempts) = 0)
           => Len(eligible) = 0
    /\ \A id \in DOMAIN store : DeclinedJustified(store[id])

\* declined by a hard decline on the second attempt
C6_Witness ==
    /\ Returned
    /\ result.Status = "declined"
    /\ Len(result.Attempts) = 2
    /\ LastCode(result) = "declined_insufficient_funds"

\* C7: a result has the status exhausted_retries exactly when at least one
\* attempt was made, every attempt returned a retriable code, and the number
\* of attempts is min(3, number of eligible processors).
C7_ExhaustedExactly ==
    Terminated =>
        ( result.Status = "exhausted_retries" <=>
            /\ Len(result.Attempts) >= 1
            /\ \A j \in 1..Len(result.Attempts) : CodeOf(result, j) \in RetriableCodes
            /\ Len(result.Attempts) = Min(3, Len(eligible)) )

\* the eligible list of two processors was drained below the attempt cap
C7_Witness ==
    /\ Returned
    /\ result.Status = "exhausted_retries"
    /\ Len(eligible) = 2
    /\ Len(result.Attempts) = 2
    /\ store[req.TransactionID].Status = "exhausted_retries"

\* C8: the eligible list holds exactly the configured processors that support
\* the request's method and whose status, as read by getEligibleProcessors,
\* is not circuit_open, each once; no other processor is invoked, and a
\* processor read as degraded is in the list.
C8_EligibleExactly ==
    EligibilityComplete =>
        /\ DOMAIN healthSeen = Supporting
        /\ EligibleNames =
               {n \in Supporting : healthSeen[n].Status # "circuit_open"}
        /\ Cardinality(EligibleNames) = Len(eligible)
        /\ InvokedNames \subseteq EligibleNames
        /\ \A n \in Supporting :
               healthSeen[n].Status = "circuit_open" => n \notin InvokedNames
        /\ \A n \in Supporting :
               healthSeen[n].Status = "degraded" => n \in EligibleNames

\* of four processors that support the method, one was read as circuit_open
\* and left out, and one was read as degraded, kept in the list and invoked
C8_Witness ==
    /\ Returned
    /\ Cardinality(Supporting) = 4
    /\ \E n \in Supporting :
           /\ healthSeen[n].Status = "circuit_open"
           /\ n \notin EligibleNames
    /\ \E n \in Supporting :
           /\ healthSeen[n].Status = "degraded"
           /\ n \in EligibleNames
           /\ n \in InvokedNames

\* C9: when the eligible list is empty, the call ends with the status
\* declined and zero attempts, invokes no processor, records no outcome, and
\* its result is in the store when it returns.
C9_NoEligibleProcessor ==
    (EligibilityComplete /\ Len(eligible) = 0) =>
        /\ Terminated
        /\ result.Status = "declined"
        /\ Len(result.Attempts) = 0
        /\ invoked = <<>>
        /\ recorded = <<>>
        /\ Returned =>
               /\ req.TransactionID \in DOMAIN store
               /\ store[req.TransactionID] = result

\* every processor that supports the method was read as circuit_open
C9_Witness ==
    /\ Returned
    /\ Len(eligible) = 0
    /\ Supporting # {}
    /\ \A n \in Supporting : healthSeen[n].Status = "circuit_open"
    /\ store[req.TransactionID].Status = "declined"

\* C10: the processors are attempted in non-increasing order of the health
\* score read at eligibility time, and the first one has the highest score
\* of the eligible list.
C10_HealthiestFirst ==
    EligibilityComplete =>
        /\ \A j \in 1..(Len(invoked) - 1) :
               AtLeast(healthSeen[invoked[j]].HealthScore,
                       healthSeen[invoked[j + 1]].HealthScore)
        /\ \A n \in EligibleNames :
               Len(invoked) >= 1 =>
                   AtLeast(healthSeen[invoked[1]].HealthScore,
                           healthSeen[n].HealthScore)

\* the sort moved a healthier processor ahead of one configured before it
C10_Witness ==
    /\ Returned
    /\ Len(invoked) >= 2
    /\ ~AtLeast(healthSeen[invoked[2]].HealthScore,
                healthSeen[invoked[1]].HealthScore)
    /\ PoolIndex(invoked[1]) > PoolIndex(invoked[2])

ScoreEq(a, b) == a.num * b.den = b.num * a.den

\* C11: the eligible processors are attempted in the order of the sorted
\* list, and among processors with equal health score that order is the
\* configuration order, whatever the size of the pool.
C11_TiesInConfigurationOrder ==
    EligibilityComplete =>
        /\ \A j \in 1..Len(invoked) : invoked[j] = eligible[j].proc
        /\ \A j, m \in 1..Len(eligible) :
               (j < m /\ ScoreEq(eligible[j].healthScore, eligible[m].healthScore))
                   => PoolIndex(eligible[j].proc) < PoolIndex(eligible[m].proc)

\* C12: when an attempt has ended and the caller's signal is cancelled (the
\* call is between two attempts, at the head of its loop), the call invokes
\* no further processor.
C12_NoAttemptAfterCancel ==
    [][(ctxDone /\ pc = "record") => invoked' = invoked]_vars

TerminalStatuses == {"approved", "declined", "exhausted_retries"}

\* C13: the call passes its result to PaymentStore.Save exactly once, when
\* it terminates and not before, the store then holds that result, and every
\* result saved or stored has one of the three terminal statuses.
C13_SavedOnceAtTermination ==
    /\ Len(saved) = (IF Returned THEN 1 ELSE 0)
    /\ ~Returned => store = <<>>
    /\ Returned =>
           /\ saved[1] = result
           /\ DOMAIN store = {req.TransactionID}
           /\ store[req.TransactionID] = result
    /\ \A n \in 1..Len(saved) : saved[n].Status \in TerminalStatuses
    /\ \A id \in DOMAIN store : store[id].Status \in TerminalStatuses

\* a call approved on its second attempt has returned
C13_Witness ==
    /\ Returned
    /\ Len(saved) = 1
    /\ saved[1].Status = "approved"
    /\ Len(saved[1].Attempts) = 2
    /\ store[req.TransactionID] = saved[1]

FinalResponseIsLast(r) ==
    /\ r.FinalResponse # <<>> <=> Len(r.Attempts) >= 1
    /\ r.FinalResponse # <<>> =>
           r.FinalResponse = <<r.Attempts[Len(r.Attempts)].Response>>

\* C14: in the result of a terminated call, and in every stored result,
\* final_response is set iff at least one attempt was made, and it is then
\* the response of the last attempt.
C14_FinalResponseIffAttempted ==
    /\ Terminated => FinalResponseIsLast(result)
    /\ \A id \in DOMAIN store : FinalResponseIsLast(store[id])

\* retries exhausted after three attempts, the last one rate limited
C14_Witness ==
    /\ Returned
    /\ result.Status = "exhausted_retries"
    /\ Len(result.Attempts) = 3
    /\ store[req.TransactionID].FinalResponse
           = <<[ProcessorName |-> eligible[3].proc, Code |-> "rate_limited"]>>

NumberedFromOne(r) ==
    \A j \in 1..Len(r.Attempts) :
        r.Attempts[j].AttemptNumber = j /\ r.Attempts[j].AttemptNumber <= 3

\* C15: the attempt numbers of a result are 1, 2, ..., n in the order of
\* the attempts, and none exceeds 3.
C15_AttemptNumbersContiguous ==
    /\ NumberedFromOne(result)
    /\ \A id \in DOMAIN store : NumberedFromOne(store[id])

\* three attempts numbered 1, 2, 3 are stored
C15_Witness ==
    /\ Returned
    /\ Len(store[req.TransactionID].Attempts) = 3
    /\ store[req.TransactionID].Attempts[3].AttemptNumber = 3
    /\ result.Status = "declined"

SavedAs(id) == {n \in 1..Len(saved) : saved[n].TransactionID = id}
Max(S) == CHOOSE n \in S : \A m \in S : m <= n

\* for every id, Get finds the result saved last under it, and finds nothing
\* for an id under which nothing was saved
StoreMatchesSaves ==
    \A id \in StoreIDs \cup {"tx-nonexistent"} :
        Get(store, id) =
            IF SavedAs(id) = {}
            THEN [result |-> NoResult, found |-> FALSE]
            ELSE [result |-> saved[Max(SavedAs(id))], found |-> TRUE]

\* C16: after Save(r), Get(r.TransactionID) returns r and found = true;
\* when ProcessPayment returns, GetPaymentHistory of its transaction id
\* returns its status and attempts; Get of an id never saved returns
\* found = false.
C16_StoreRoundTrip ==
    [][ /\ StoreMatchesSaves'
        /\ saved' # saved =>
               Get(store', saved'[Len(saved')].TransactionID)
                   = [result |-> saved'[Len(saved')], found |-> TRUE]
        /\ (pc = "save" /\ pc' = "done") =>
               LET h == Get(store', req.TransactionID)
               IN  /\ h.found
                   /\ h.result.Status = result.Status
                   /\ h.result.Attempts = result.Attempts ]_vars

\* the call has returned and its result, saved over an earlier result under
\* the same id, is the one found; two results were saved under another id
C16_Witness ==
    /\ Returned
    /\ Len(saved) = 3
    /\ saved[1].TransactionID = req.TransactionID
    /\ saved[2] = result
    /\ Len(result.Attempts) >= 1
    /\ saved[3].TransactionID = "tx-002"
    /\ GetPaymentHistory(req.TransactionID) = [result |-> result, found |-> TRUE]
    /\ ~GetPaymentHistory("tx-nonexistent").found

\* C17: every snapshot of GetHealth, of a recorded or an unknown processor,
\* at any time and between any two records, has ApprovedCount + ErrorCount =
\* TotalRecent; its score is ApprovedCount / TotalRecent, within [0, 1], when
\* TotalRecent > 0, and 1 with the status healthy when TotalRecent = 0.
C17_SnapshotConsistent ==
    \A n \in MonitorNames \cup UnknownNames :
        LET h == GetHealth(n)
        IN  /\ h.ApprovedCount + h.ErrorCount = h.TotalRecent
            /\ h.ApprovedCount >= 0 /\ h.ErrorCount >= 0
            /\ h.TotalRecent > 0 =>
                   /\ h.HealthScore.num = h.ApprovedCount
                   /\ h.HealthScore.den = h.TotalRecent
                   /\ 0 <= h.HealthScore.num
                   /\ h.HealthScore.num <= h.HealthScore.den
            /\ h.TotalRecent = 0 =>
                   /\ h.HealthScore = [num |-> 1, den |-> 1]
                   /\ h.Status = "healthy"

\* three outcomes are stored, the oldest has left the time window, one of the
\* other two is an approval; the unknown processor reads as healthy
C17_Witness ==
    /\ Len(Window("PayFlow")) = 3
    /\ GetHealth("PayFlow").TotalRecent = 2
    /\ GetHealth("PayFlow").ApprovedCount = 1
    /\ GetHealth("PayFlow").ErrorCount = 1
    /\ GetHealth("CardMax").TotalRecent = 0
    /\ GetHealth("CardMax").Status = "healthy"

\* C18: with a approvals among t > 0 recent outcomes, the status is
\* circuit_open when a/t < 1/5, degraded when 1/5 <= a/t < 1/2 and healthy
\* when a/t >= 1/2; exactly 1/2 is healthy and exactly 1/5 is degraded.
C18_StrictThresholds ==
    \A n \in MonitorNames \cup UnknownNames :
        LET h == GetHealth(n)
            a == h.ApprovedCount
            t == h.TotalRecent
        IN  t > 0 =>
                /\ 5 * a < t => h.Status = "circuit_open"
                /\ (5 * a >= t /\ 2 * a < t) => h.Status = "degraded"
                /\ 2 * a >= t => h.Status = "healthy"
                /\ 2 * a = t => h.Status = "healthy"
                /\ 5 * a = t => h.Status = "degraded"

\* one approval among five recent outcomes: exactly 1/5, read as degraded
C18_Witness ==
    /\ GetHealth("PayFlow").TotalRecent = 5
    /\ GetHealth("PayFlow").ApprovedCount = 1
    /\ GetHealth("PayFlow").Status = "degraded"

FailureCodes ==
    {"soft_decline", "declined_insufficient_funds", "declined_fraud",
     "processor_error", "timeout", "rate_limited"}

\* the RecordOutcome calls made for the processor n, in order, and the most
\* recent windowSize of them
RecordsOf(n) == SelectSeq(recorded, LAMBDA r : r.name = n)
RecentRecordsOf(n) ==
    LET h == RecordsOf(n)
    IN  IF Len(h) > windowSize
        THEN [j \in 1..windowSize |-> h[Len(h) - windowSize + j]]
        ELSE h
CountCodes(recs, codes) == Cardinality({j \in 1..Len(recs) : recs[j].code \in codes})

\* C19: every RecordOutcome call, whatever its code, adds one outcome; among
\* the recent records of a processor the ones with the code approved, and
\* only they, are its ApprovedCount, and the ones with any of the six other
\* codes are its ErrorCount.
C19_OnlyApprovedCounts ==
    \A n \in MonitorNames :
        LET h == GetHealth(n)
            recent == RecentRecordsOf(n)
        IN  /\ h.TotalRecent = Len(recent)
            /\ h.ApprovedCount = CountCodes(recent, {"approved"})
            /\ h.ErrorCount = CountCodes(recent, FailureCodes)
            /\ \A j \in 1..Len(recent) :
                   Window(n)[j].approved = (recent[j].code = "approved")

\* each of the six failure codes was recorded once: all of them count as
\* errors, none as an approval
C19_Witness ==
    /\ Len(recorded) = 6
    /\ {recorded[j].code : j \in 1..6} = FailureCodes
    /\ GetHealth("PayFlow").ApprovedCount = 0
    /\ GetHealth("PayFlow").ErrorCount = 5
    /\ GetHealth("PayFlow").Status = "circuit_open"

\* the outcomes of the RecordOutcome calls made for n that were younger than
\* the window duration at time t, the most recent windowSize of them
OutcomesOf(n) ==
    LET h == RecordsOf(n)
    IN  [j \in 1..Len(h) |-> [approved |-> (h[j].code = "approved"),
                               timestamp |-> h[j].at]]
MostRecent(s) ==
    IF Len(s) > windowSize
    THEN [j \in 1..windowSize |-> s[Len(s) - windowSize + j]]
    ELSE s
RecentOutcomesAt(n, t) ==
    MostRecent(SelectSeq(OutcomesOf(n), LAMBDA o : t - o.timestamp < windowDuration))

\* C20: the stored window of a processor has at most windowSize entries;
\* they are the outcomes of its most recent RecordOutcome calls, in the order
\* of the calls; GetHealth counts the most recent windowSize outcomes at most,
\* so that TotalRecent never exceeds windowSize.
C20_WindowKeepsMostRecent ==
    \A n \in MonitorNames :
        LET h == RecordsOf(n)
        IN  /\ Len(Window(n)) <= windowSize
            /\ Len(h) > 0 => Window(n) = RecentOutcomesAt(n, h[Len(h)].at)
            /\ Len(h) = 0 => Window(n) = <<>>
            /\ GetHealth(n).TotalRecent <= windowSize
            /\ GetHealth(n).TotalRecent = Len(RecentOutcomesAt(n, now))
            /\ GetHealth(n).ApprovedCount =
                   Len(SelectSeq(RecentOutcomesAt(n, now), LAMBDA o : o.approved))

\* a failure followed by five approvals in a window of five: the failure was
\* evicted and the score is back to 1
C20_Witness ==
    /\ Len(recorded) = 6
    /\ windowSize = 5
    /\ Len(Window("PayFlow")) = 5
    /\ recorded[1].at < recorded[6].at
    /\ recorded[1].code = "processor_error"
    /\ \A j \in 2..6 : recorded[j].code = "approved"
    /\ GetHealth("PayFlow").TotalRecent = 5
    /\ GetHealth("PayFlow").HealthScore = [num |-> 5, den |-> 5]
    /\ GetHealth("PayFlow").Status = "healthy"

Expired(o, t) == t - o.timestamp >= windowDuration
OlderThanDuration(o, t) == t - o.timestamp > windowDuration

\* C21 as stated: no window held by the Monitor contains an entry older than
\* the window duration.
C21_Original ==
    \A n \in DOMAIN windows :
        \A j \in 1..Len(windows[n]) : ~OlderThanDuration(windows[n][j], now)

\* C21 amended: the window a read works on (the active window) contains no
\* entry as old as the window duration, and the window the Monitor holds
\* contained none when the last outcome of its processor was recorded.
C21_NoExpiredEntrySeen ==
    \A n \in MonitorNames :
        /\ \A j \in 1..Len(getActiveWindow(n)) :
               ~Expired(getActiveWindow(n)[j], now)
        /\ Len(RecordsOf(n)) > 0 =>
               \A j \in 1..Len(Window(n)) :
                   ~Expired(Window(n)[j], RecordsOf(n)[Len(RecordsOf(n))].at)

\* a record dropped an expired entry; since then one of the two held
\* entries has expired, is still held, and is left out by the read
C21_Witness ==
    /\ Len(RecordsOf("PayFlow")) = 3
    /\ Len(Window("PayFlow")) = 2
    /\ Expired(Window("PayFlow")[1], now)
    /\ Len(getActiveWindow("PayFlow")) = 1

\* C22: GetHealth counts exactly the recorded outcomes younger than the
\* window duration, whether or not an outcome was recorded since the others
\* aged out; when every held entry has expired it returns score 1, status
\* healthy and TotalRecent 0.
C22_ExpiredNeverCounted ==
    \A n \in MonitorNames :
        LET h == GetHealth(n)
            young == SelectSeq(RecordsOf(n),
                               LAMBDA r : now - r.at < windowDuration)
        IN  /\ h.TotalRecent = Min(Len(young), windowSize)
            /\ Len(young) <= windowSize =>
                   h.ApprovedCount = CountCodes(young, {"approved"})
            /\ (\A j \in 1..Len(Window(n)) : Expired(Window(n)[j], now)) =>
                   /\ h.TotalRecent = 0
                   /\ h.HealthScore = [num |-> 1, den |-> 1]
                   /\ h.Status = "healthy"

\* three failures are held, all of them expired: they would read as
\* circuit_open, and the processor reads as healthy
C22_Witness ==
    /\ Len(Window("PayFlow")) = 3
    /\ \A j \in 1..3 : ~Window("PayFlow")[j].approved
    /\ \A j \in 1..3 : Expired(Window("PayFlow")[j], now)
    /\ GetHealth("PayFlow").TotalRecent = 0
    /\ GetHealth("PayFlow").Status = "healthy"

SevenCodes ==
    {"approved", "soft_decline", "declined_insufficient_funds",
     "declined_fraud", "processor_error", "timeout", "rate_limited"}

\* C28: each of the seven response codes is exactly one of approved,
\* retriable or hard decline: IsRetriable holds of the four retriable codes
\* only, IsHardDecline of the two hard declines only, never both, and
\* neither only for approved; so is every code returned to a call.
C28_TaxonomyPartition ==
    /\ ResponseCodes = SevenCodes
    /\ \A c \in SevenCodes :
           /\ IsRetriable(c) <=> c \in RetriableCodes
           /\ IsHardDecline(c) <=> c \in HardDeclineCodes
           /\ ~(IsRetriable(c) /\ IsHardDecline(c))
           /\ (~IsRetriable(c) /\ ~IsHardDecline(c)) <=> c = "approved"
    /\ \A j \in 1..Len(result.Attempts) :
           LET c == CodeOf(result, j)
           IN  (IF c = "approved" THEN 1 ELSE 0)
                   + (IF IsRetriable(c) THEN 1 ELSE 0)
                   + (IF IsHardDecline(c) THEN 1 ELSE 0) = 1

\* a call met two retriable codes and then a hard decline
C28_Witness ==
    /\ Returned
    /\ Len(result.Attempts) = 3
    /\ IsRetriable(CodeOf(result, 1)) /\ CodeOf(result, 1) = "processor_error"
    /\ IsRetriable(CodeOf(result, 2)) /\ CodeOf(result, 2) = "rate_limited"
    /\ IsHardDecline(CodeOf(result, 3)) /\ CodeOf(result, 3) = "declined_insufficient_funds"

\* C29: attempt 1 carries a primary reason, in its degraded form exactly
\* when its processor was read as degraded at eligibility time; an attempt
\* j > 1 carries a fallback reason that names the processor and the code of
\* attempt j - 1, with the degraded suffix exactly when its own processor
\* was read as degraded.
C29_RoutingReasons ==
    EligibilityComplete =>
        \A j \in 1..Len(result.Attempts) :
            LET a == result.Attempts[j]
                wasDegraded == healthSeen[a.ProcessorName].Status = "degraded"
            IN  IF j = 1
                THEN a.RoutingReason.kind =
                         (IF wasDegraded THEN "primary (degraded)" ELSE "primary")
                ELSE /\ a.RoutingReason.kind = "fallback"
                     /\ a.RoutingReason.prevProcessor =
                            result.Attempts[j - 1].ProcessorName
                     /\ a.RoutingReason.prevCode = CodeOf(result, j - 1)
                     /\ a.RoutingReason.degraded = wasDegraded

\* a primary attempt and two fallbacks, the last one on a degraded
\* processor after a failure of the second with another code than the first
C29_Witness ==
    /\ Returned
    /\ Len(result.Attempts) = 3
    /\ result.Attempts[1].RoutingReason.kind = "primary"
    /\ CodeOf(result, 1) = "soft_decline"
    /\ CodeOf(result, 2) = "timeout"
    /\ result.Attempts[3].RoutingReason.prevCode = "timeout"
    /\ result.Attempts[3].RoutingReason.degraded
    /\ ~result.Attempts[2].RoutingReason.degraded

\* C27: once getEligibleProcessors has returned, the eligible list of the
\* call never changes, and after a retriable failure with an attempt and a
\* processor left the call invokes the next processor of that list, whatever
\* the monitor reads of it by then.
C27_EligibleListFixed ==
    [][ /\ EligibilityComplete => eligible' = eligible
        /\ ( /\ pc = "record" /\ pc' # "record"
              /\ LastCode(result) \in RetriableCodes
              /\ Len(result.Attempts) < Min(3, Len(eligible)) )
           => invoked' = Append(invoked, eligible[Len(invoked) + 1].proc) ]_vars

\* after the first attempt failed, the next processor of the list, read as
\* healthy at eligibility time, is circuit_open in the monitor
C27_Witness ==
    /\ pc = "record"
    /\ Len(result.Attempts) = 1
    /\ LastCode(result) \in RetriableCodes
    /\ Len(eligible) >= 2
    /\ healthSeen[eligible[2].proc].Status = "healthy"
    /\ GetHealth(eligible[2].proc).Status = "circuit_open"

\* the outcomes the call has reported are those of its attempts, in order,
\* each under the processor that was invoked for the attempt
RecordsMatchAttempts ==
    /\ Len(recorded) <= Len(result.Attempts)
    /\ \A j \in 1..Len(recorded) :
          /\ recorded[j].name = invoked[j]
          /\ recorded[j].name = result.Attempts[j].ProcessorName
          /\ recorded[j].code = result.Attempts[j].Response.Code

\* C26: every attempt is followed by exactly one RecordOutcome, for the
\* processor that was invoked and the code it returned; that record is made
\* before the routing reason of the next attempt is computed, before the next
\* processor is invoked and before the result is saved.
C26_RecordAfterEveryAttempt ==
    [][ /\ RecordsMatchAttempts'
        /\ recorded' # recorded =>
              /\ Len(recorded') = Len(recorded) + 1
              /\ Len(recorded') = Len(result.Attempts)
              /\ windows' = RecordOutcome(invoked[Len(invoked)],
                                          LastCode(result))
        /\ (pc' = "record") => Len(recorded') = Len(result'.Attempts) - 1
        /\ (reason' # reason \/ invoked' # invoked) =>
              Len(recorded') = Len(invoked' ) - 1
        /\ (pc' \in {"save", "done"} \/ saved' # saved) =>
              Len(recorded') = Len(result'.Attempts) ]_vars

\* a call that made two attempts and was saved: both outcomes are reported
C26_Witness ==
    /\ pc = "done"
    /\ Len(result.Attempts) = 2
    /\ Len(recorded) = 2
    /\ recorded[2].code \in HardDeclineCodes

\* the body fails one of the five checks the claim lists
FailsValidation(b) ==
    \/ b.TransactionID = ""
    \/ b.Amount <= 0
    \/ b.Currency = ""
    \/ b.PaymentMethod \notin {"card", "pix", "oxxo", "pse"}
    \/ b.CustomerID = ""

\* C30: a POST /payments whose body fails validation is answered 400 and
\* never reaches the orchestrator: the step that handles it invokes no
\* processor and changes neither the monitor nor the store, and no call is
\* in progress for it.
C30_InvalidRequestRejected ==
    [][ FailsValidation(httpRequest') =>
          /\ httpStatus' = 400
          /\ UNCHANGED <<windows, store, saved, invoked, recorded, pc, req,
                         result>>
          /\ pc' \in {"idle", "done"} ]_vars

\* an invalid body that decodes was answered after a payment was handled:
\* the monitor and the store hold what that payment left
C30_Witness ==
    /\ httpRequest.decodes
    /\ FailsValidation(httpRequest)
    /\ httpRequest.TransactionID # ""
    /\ httpRequest.Amount <= 0
    /\ httpStatus = 400
    /\ store # <<>>
    /\ windows # <<>>

\* the goroutines whose RecordOutcome call has returned
RecordsDone == {g \in DOMAIN goroutines : goroutines[g].at # "RecordOutcome"}
\* the goroutines whose GetHealth call has returned
HealthDone ==
    {g \in DOMAIN goroutines : goroutines[g].at \in {"IsCircuitOpen", "finished"}}

\* C23: no outcome recorded by concurrent RecordOutcome calls on one
\* processor is lost: whenever no call is inside its locked section the
\* window holds min(n, W) entries for the n calls that have returned (the
\* approved ones among them are those recorded as approved when W >= n),
\* every GetHealth interleaved with them sees at least the caller's own entry
\* and at most min(n, W), and after all calls TotalRecent is min(n, W).
C23_NoOutcomeLost ==
    /\ monitorMu.writer = NoGoroutine =>
          /\ Len(Window(ConcProc)) = Min(Cardinality(RecordsDone), windowSize)
          /\ windowSize >= MonitorGoroutines =>
                CountApproved(Window(ConcProc)) =
                    Cardinality({g \in RecordsDone :
                                    goroutines[g].code = Approved})
    /\ \A g \in HealthDone :
          /\ goroutines[g].health.TotalRecent >= 1
          /\ goroutines[g].health.TotalRecent
                 <= Min(MonitorGoroutines, windowSize)
    /\ (\A g \in DOMAIN goroutines : goroutines[g].at = "finished") =>
          GetHealth(ConcProc).TotalRecent = Min(MonitorGoroutines, windowSize)

\* all goroutines are through, the window is smaller than their number and
\* one of them read the health before the others had all recorded
C23_Witness ==
    /\ \A g \in DOMAIN goroutines : goroutines[g].at = "finished"
    /\ windowSize < MonitorGoroutines
    /\ Len(Window(ConcProc)) = windowSize
    /\ \E g \in DOMAIN goroutines : goroutines[g].health.TotalRecent = 1

\* C24: a ProcessPayment call that has returned, among concurrent calls with
\* pairwise distinct transaction ids, finds its id in the store with the
\* result it returned; so after all calls every id is retrievable.
C24_EveryResultRetrievable ==
    \A g \in DOMAIN goroutines :
        goroutines[g].at = "returned" =>
            LET r == Get(store, ConcurrentIDs[g])
            IN  /\ r.found
                /\ r.result = goroutines[g].result
                /\ r.result.TransactionID = ConcurrentIDs[g]

\* all the calls have returned, with different results, and the store holds
\* one entry per call
C24_Witness ==
    /\ \A g \in DOMAIN goroutines : goroutines[g].at = "returned"
    /\ Cardinality(DOMAIN store) = PaymentGoroutines
    /\ \E g, h \in DOMAIN goroutines :
          /\ goroutines[g].result.Status = StatusApproved
          /\ goroutines[h].result.Status = StatusExhaustedRetries
          /\ Len(goroutines[h].result.Attempts) = 2

\* the locks the goroutine holds
Held(g) ==
    {m \in {"monitor", "store"} :
        LET mu == IF m = "monitor" THEN monitorMu ELSE storeMu
        IN  mu.writer = g \/ g \in mu.readers}

\* C25: a goroutine that runs ProcessPayment holds at most one of the lock of
\* the Monitor and the lock of the PaymentStore, and none while a processor's
\* Process is in progress.
C25_LocksNeverNested ==
    \A g \in DOMAIN goroutines :
        /\ Cardinality(Held(g)) <= 1
        /\ goroutines[g].at = "Process" => Held(g) = {}

\* one call is inside Process while another holds the lock of the Monitor
\* for writing, and a call holds the lock of the store while another holds
\* that of the Monitor
C25_Witness ==
    \E g, h \in DOMAIN goroutines :
        /\ g # h
        /\ \/ goroutines[g].at = "Process" /\ monitorMu.writer = h
           \/ storeMu.writer = g /\ h \in monitorMu.readers

\* the request being handled passed the decoding and the validation
ValidRequest == httpRequest.decodes /\ ~FailsValidation(httpRequest)

\* C31: a valid POST /payments is never answered 400; once answered, its
\* status is 200 exactly when the result is approved and 422 when it is
\* declined or exhausted_retries, and its body is the encoding of the result
\* that the call saved, which is what the store holds under the id.
C31_StatusFollowsResult ==
    /\ ValidRequest => httpStatus \in {0, 200, 422}
    /\ (ValidRequest /\ httpStatus # 0) =>
          /\ pc = "done"
          /\ httpStatus = 200 <=> result.Status = "approved"
          /\ result.Status \in {"declined", "exhausted_retries"}
                 => httpStatus = 422
          /\ httpBody = EncodeResult(saved[Len(saved)])
          /\ GetPaymentHistory(httpRequest.TransactionID).found
          /\ httpBody =
                EncodeResult(GetPaymentHistory(httpRequest.TransactionID).result)
          /\ httpBody.status = result.Status

\* the no-eligible-processor case: declined with no attempt, answered 422
C31_Witness ==
    /\ ValidRequest
    /\ httpStatus = 422
    /\ httpBody.status = "declined"
    /\ httpBody.attempts = <<>>
    /\ httpBody.final_response = "null"

\* the names passed to RecordOutcome so far
RecordedNames == {recorded[j].name : j \in 1..Len(recorded)}

\* C32: GetAllHealth returns exactly one snapshot for every processor name
\* ever passed to RecordOutcome and for no other name, the snapshot being
\* what GetHealth returns; a name never leaves it, also not when all its
\* entries have expired.
C32_AllHealthCoversRecorded ==
    [][ /\ {h.ProcessorName : h \in GetAllHealth}' = RecordedNames'
        /\ Cardinality(GetAllHealth)' = Cardinality(RecordedNames)'
        /\ \A h \in GetAllHealth' : h = GetHealth(h.ProcessorName)'
        /\ {h.ProcessorName : h \in GetAllHealth}
              \subseteq {h.ProcessorName : h \in GetAllHealth}' ]_vars

\* two names are reported, one of them with every entry expired
C32_Witness ==
    /\ Cardinality(GetAllHealth) = 2
    /\ \E h \in GetAllHealth :
          /\ h.TotalRecent = 0
          /\ Len(Window(h.ProcessorName)) > 0
    /\ \E h \in GetAllHealth : h.TotalRecent > 0

\* C33: an invocation whose context was cancelled before its latency had
\* elapsed returns a response with the code timeout and the name of its
\* processor.
C33_CancelledReturnsTimeout ==
    (invocation.pc = "returned" /\ invocation.inTime) =>
        /\ invocation.resp[1].Code = "timeout"
        /\ invocation.resp[1].ProcessorName = invocation.name

\* C34: every ProcessPayment call terminates: whatever the interleaving
\* with the other calls, every call eventually has returned, with one of the
\* three terminal statuses and at most 3 attempts.
C34_EveryCallTerminates ==
    <>(\A g \in DOMAIN goroutines :
          /\ goroutines[g].at = "returned"
          /\ goroutines[g].result.Status \in TerminalStatuses
          /\ Len(goroutines[g].result.Attempts) <= 3)

\* a call has returned after three attempts, the cap, with a processor left
C34_Witness ==
    \E g \in DOMAIN goroutines :
        /\ goroutines[g].at = "returned"
        /\ goroutines[g].result.Status = "exhausted_retries"
        /\ Len(goroutines[g].result.Attempts) = 3
        /\ Len(goroutines[g].eligible) = 4

\* C35: when the caller's signal is cancelled before attempt 1, the call
\* invokes no processor and ends with the status declined and no attempt.
C35_CancelledBeforeFirstAttempt ==
    [][ (ctxDone /\ invoked = <<>> /\ pc \in {"idle", "eligibility"}) =>
          /\ invoked' = <<>>
          /\ pc' \in {"save", "done"} =>
                /\ result'.Status = "declined"
                /\ result'.Attempts = <<>> ]_vars

\* the entries of all windows, and the outcomes the goroutines have written
\* to the monitor: one per attempt, but for the attempt whose RecordOutcome
\* has not yet stored
RECURSIVE SumOver(_, _)
SumOver(f, S) ==
    IF S = {} THEN 0
    ELSE LET x == CHOOSE y \in S : TRUE
         IN  f[x] + SumOver(f, S \ {x})

WindowEntries ==
    SumOver([n \in DOMAIN windows |-> Len(windows[n])], DOMAIN windows)

OutcomesWritten ==
    SumOver([g \in DOMAIN goroutines |->
                LET t == goroutines[g]
                IN  IF t.at = "RecordOutcome" /\ t.step \in {"call", "locked", "loaded"}
                    THEN Len(t.result.Attempts) - 1
                    ELSE Len(t.result.Attempts)],
            DOMAIN goroutines)

\* goroutine g executes the write of Save in this step
Writes(g) ==
    /\ goroutines[g].at = "Save"
    /\ goroutines[g].step = "locked"
    /\ goroutines'[g].step = "stored"

\* C36: two calls with the same id each run their own attempt loop (a call
\* that finds the id stored still invokes processors) and record their own
\* outcomes; a Save replaces the entry of the id by the whole result of the
\* saving call, and nothing else changes the store, so the store holds the
\* result of whichever call saved last and never a mixture.
C36_LastWriterWins ==
    [][ /\ \A g \in DOMAIN goroutines :
              Writes(g) => store' = (DuplicateID :> goroutines[g].result)
        /\ (\A g \in DOMAIN goroutines : ~Writes(g)) => store' = store
        /\ \A g \in DOMAIN goroutines :
              /\ goroutines'[g].result.TransactionID = DuplicateID
              /\ \A n \in 1..Len(goroutines'[g].result.Attempts) :
                    goroutines'[g].result.Attempts[n].AttemptNumber = n
              /\ \A n \in 1..Len(goroutines[g].result.Attempts) :
                    goroutines'[g].result.Attempts[n] =
                        goroutines[g].result.Attempts[n]
        /\ WindowEntries' = OutcomesWritten' ]_vars

\* the first call has returned with its result saved, the second call has
\* made its own attempts, reached another result and has just overwritten
\* the entry
C36_Witness ==
    /\ goroutines[1].at = "returned"
    /\ goroutines[2].at = "Save"
    /\ goroutines[2].step = "stored"
    /\ goroutines[1].result.Status = StatusApproved
    /\ goroutines[2].result.Status = StatusExhaustedRetries
    /\ Len(goroutines[2].result.Attempts) = 2
    /\ store[DuplicateID] = goroutines[2].result
    /\ store[DuplicateID] # goroutines[1].result

\* the window duration has elapsed since the newest entry of the processor
Aged(n) ==
    /\ n \in DOMAIN windows
    /\ Len(windows[n]) > 0
    /\ now - windows[n][Len(windows[n])].timestamp >= windowDuration

\* C37: a request that read a processor as circuit_open when it computed
\* the eligible list neither invokes it nor records an outcome for it; once
\* the window duration has elapsed since the newest entry of a processor,
\* GetHealth reports score 1.0 and healthy for it, and a request that then
\* computes its eligibility lists it.
C37_OpenRecoversByAgeing ==
    [][ /\ \A n \in DOMAIN healthSeen' :
              healthSeen'[n].Status = "circuit_open" =>
                  /\ \A m \in 1..Len(invoked') : invoked'[m] # n
                  /\ \A m \in 1..Len(recorded') : recorded'[m].name # n
                  /\ \A m \in 1..Len(eligible') : eligible'[m].proc # n
        /\ \A n \in DOMAIN windows' :
              Aged(n)' =>
                  /\ GetHealth(n)'.HealthScore = ScoreOne
                  /\ GetHealth(n)'.Status = "healthy"
        /\ ( /\ pc = "eligibility"
             /\ i <= Len(processors)
             /\ i' = i + 1
             /\ SupportsMethod(processors[i], req.PaymentMethod)
             /\ Aged(processors[i].name) )
              => eligible' = Append(eligible,
                                    [proc |-> processors[i].name,
                                     healthScore |-> ScoreOne,
                                     status |-> "healthy"]) ]_vars

\* the request read PayFlow as circuit_open and was served by GlobalPay
\* alone; nothing more was recorded for PayFlow, the window duration has
\* elapsed since its newest entry, and GetHealth reports it healthy again
C37_Witness ==
    /\ pc = "done"
    /\ "PayFlow" \in DOMAIN healthSeen
    /\ healthSeen["PayFlow"].Status = "circuit_open"
    /\ invoked = <<"GlobalPay">>
    /\ Aged("PayFlow")
    /\ \A m \in 1..Len(windows["PayFlow"]) : ~windows["PayFlow"][m].approved
    /\ GetHealth("PayFlow").Status = "healthy"
    /\ GetHealth("PayFlow").HealthScore = ScoreOne

\* a request computes the eligibility of PayFlow after its failures have
\* aged out, and invokes it
C37_RecoveredIsInvoked ==
    /\ Aged("PayFlow")
    /\ \A m \in 1..Len(windows["PayFlow"]) : ~windows["PayFlow"][m].approved
    /\ "PayFlow" \in DOMAIN healthSeen
    /\ healthSeen["PayFlow"].TotalRecent = 0
    /\ Len(invoked) > 0
    /\ invoked[1] = "PayFlow"

\* C38: within one request no processor is invoked more than once: the
\* processors invoked, and the processor names of the attempts of the
\* result, are pairwise distinct (the names of the pool are unique).
C38_NoProcessorInvokedTwice ==
    /\ \A a, b \in 1..Len(processors) :
          a # b => processors[a].name # processors[b].name
    /\ \A a, b \in 1..Len(invoked) : a # b => invoked[a] # invoked[b]
    /\ \A a, b \in 1..Len(result.Attempts) :
          a # b => result.Attempts[a].ProcessorName
                       # result.Attempts[b].ProcessorName
    /\ \A a \in 1..Len(result.Attempts) :
          result.Attempts[a].ProcessorName = invoked[a]

\* a request served from the pool of 13 card processors has made three
\* attempts
C38_Witness ==
    /\ pc = "done"
    /\ Len(processors) = 13
    /\ Len(eligible) = 13
    /\ Len(result.Attempts) = 3
    /\ result.Status = StatusExhaustedRetries

\* C39: a step changes the window of a processor (or makes it a key of
\* m.windows) only if it is RecordOutcome for that processor; a step that
\* is not a RecordOutcome (GetHealth, GetAllHealth, IsCircuitOpen) changes
\* no window and no key.
C39_OnlyRecordChangesItsWindow ==
    [][ /\ \A n \in DOMAIN windows \cup DOMAIN windows' :
              (Window(n)' # Window(n)
                  \/ (n \in DOMAIN windows') # (n \in DOMAIN windows))
              => /\ Len(recorded') = Len(recorded) + 1
                 /\ recorded'[Len(recorded')].name = n
        /\ recorded' = recorded => windows' = windows
        /\ Len(recorded') = Len(recorded) + 1 =>
              LET p == recorded'[Len(recorded')].name
              IN  /\ Len(windows'[p]) > 0
                  /\ windows'[p][Len(windows'[p])].timestamp = now ]_vars

\* PayFlow has expired entries in its stored window and CardMax has never
\* been recorded; GetAllHealth has just returned the snapshot of PayFlow
\* alone, reading an empty active window, and the stored window is as it was
C39_Witness ==
    /\ DOMAIN windows = {"PayFlow"}
    /\ Len(windows["PayFlow"]) = 2
    /\ Len(getActiveWindow("PayFlow")) = 0
    /\ DOMAIN healthSeen = {"PayFlow"}
    /\ healthSeen["PayFlow"].TotalRecent = 0
    /\ healthSeen["PayFlow"].LastUpdated = now

\* RecordOutcome for CardMax has left the two entries of PayFlow, one of
\* them expired, in place
C39_RecordLeavesOthers ==
    /\ Len(recorded) = MaxFrameRecords
    /\ recorded[Len(recorded)].name = "CardMax"
    /\ recorded[Len(recorded)].at = now
    /\ "PayFlow" \in DOMAIN windows
    /\ Len(windows["PayFlow"]) = 2
    /\ Len(getActiveWindow("PayFlow")) = 1

\* the result is what a finished attempt loop leaves: every attempt but the
\* last one a retriable failure, and the last one as the status says
CompleteResult(res, el) ==
    LET n == Len(res.Attempts)
    IN  /\ res.Status \in {"approved", "declined", "exhausted_retries"}
        /\ \A m \in 1..n : res.Attempts[m].AttemptNumber = m
        /\ \A m \in 1..(n - 1) :
              res.Attempts[m].Response.Code \in RetriableCodes
        /\ res.Status = "approved" =>
              n > 0 /\ res.Attempts[n].Response.Code = "approved"
        /\ res.Status = "declined" =>
              \/ n = 0 /\ Len(el) = 0
              \/ n > 0 /\ res.Attempts[n].Response.Code \in HardDeclineCodes
        /\ res.Status = "exhausted_retries" =>
              /\ n = (IF Len(el) < MaxRetries THEN Len(el) ELSE MaxRetries)
              /\ n > 0
              /\ res.Attempts[n].Response.Code \in RetriableCodes
        /\ res.FinalResponse =
              (IF n = 0 THEN <<>> ELSE <<res.Attempts[n].Response>>)

\* the goroutine has executed the write of Save
HasSaved(g) ==
    \/ goroutines[g].at = "returned"
    \/ goroutines[g].at = "Save" /\ goroutines[g].step = "stored"

\* C40: every result the store holds, and so every result GetPaymentHistory
\* can return, is the finished result of the call that saved it: terminal
\* status and all its attempts; while the call for an id has not saved,
\* GetPaymentHistory of that id returns found = FALSE.
C40_NoPartialResultVisible ==
    /\ \A id \in DOMAIN store :
          /\ GetPaymentHistory(id).found
          /\ \E g \in DOMAIN goroutines :
                /\ HasSaved(g)
                /\ goroutines[g].result.TransactionID = id
                /\ GetPaymentHistory(id).result = goroutines[g].result
                /\ CompleteResult(GetPaymentHistory(id).result,
                                  goroutines[g].eligible)
    /\ \A g \in DOMAIN goroutines :
          ~HasSaved(g) =>
              ~GetPaymentHistory(goroutines[g].result.TransactionID).found

\* one call has returned and its result of two attempts is stored, while
\* the other call, one failed attempt made, is invoking its second
\* processor and its id is not found
C40_Witness ==
    /\ goroutines[1].at = "returned"
    /\ GetPaymentHistory(ConcurrentIDs[1]).found
    /\ Len(GetPaymentHistory(ConcurrentIDs[1]).result.Attempts) = 2
    /\ goroutines[2].at = "Process"
    /\ Len(goroutines[2].result.Attempts) = 1
    /\ ~GetPaymentHistory(ConcurrentIDs[2]).found

====
